---- MODULE Spec2Model ----
(***************************************************************************)
(* A model of the thermalize command encoders: the escape and star         *)
(* dialects (stateless byte translators), the postscript dialect (the      *)
(* page-description layout engine) and the rasterizer they share.          *)
(*                                                                         *)
(* Numbers.  The Go code computes the layout in float64.  Every horizontal *)
(* length of the model is an integer count of 1/8 pt (HU), every vertical  *)
(* length an integer count of 1/1000 pt (VU); all lengths the code forms   *)
(* from charWidth = 4.25, lineFeed = 10.8 and the factor 0.79 are exact in *)
(* these units.  The vertical cursor y is the one float that can become    *)
(* NaN (image of width 0), so it is a record [nan, v].                     *)
(*                                                                         *)
(* The sink.  Every call of Write appends one element to sink: a sequence  *)
(* of bytes for the escape and star dialects, and for the postscript       *)
(* dialect a record standing for the formatted PostScript text of that     *)
(* Write (its fields are the arguments of the format).                     *)
(***************************************************************************)
EXTENDS Integers, Sequences, FiniteSets, TLC

VARIABLES
    dialect,        \* which constructor built the encoder: NewEscape, NewStar, NewPostscript
    imageFunc,      \* escape.imageFunc: "imageObsolete", "imageV1" or "imageV2"
    cpl, ppl,       \* skipper.cpl, skipper.ppl
    barcodeFunc,    \* skipper.barcodeFunc # nil
    barcodeWidth, barcodeHeight, hriPosition,   \* skipper fields read by Barcode
    tabPositions,   \* postscript.tabPositions (HU)
    width, height,  \* postscript.width (HU), postscript.height (VU)
    x, y,           \* postscript.x (HU), postscript.y (float, VU)
    tab,            \* postscript.tab (HU)
    row,            \* postscript.row
    font,           \* postscript.font
    bold, sizeX, sizeY, align, underling,   \* pending style attributes
    grayLevel,      \* the process-wide gray level
    sink,           \* what the writer skipper.w has received, one element per Write
    barcodeCalls,   \* the (data, options) the injected barcode generator was called with
    status,         \* "ok", "panic" (a runtime panic ended the call), "hang" (a call never returns)
    qrcodeFunc,     \* skipper.qrcodeFunc # nil
    qrcodeSize, qrcodeCorrectionLevel,          \* skipper fields read by QRCode
    writer,         \* skipper.w: whether it is set, and how many Writes it takes before it fails
    failed,         \* number of Writes the writer answered with an error
    calls,          \* number of operations called so far
    last,           \* the last operation called and its arguments
    raster,         \* a rasterize call running in another goroutine: where it is, its locals
    stores          \* the values SetGrayLevel and ResetGrayLevel have stored so far

vars == <<dialect, imageFunc, cpl, ppl, barcodeFunc, barcodeWidth, barcodeHeight,
          hriPosition, tabPositions, width, height, x, y, tab, row, font, bold,
          sizeX, sizeY, align, underling, grayLevel, sink, barcodeCalls, status, calls,
          last, qrcodeFunc, qrcodeSize, qrcodeCorrectionLevel, writer, failed,
          raster, stores>>

(***************************************************************************)
(* Bounds of the model.                                                    *)
(***************************************************************************)
\* Longest sequence of operations called on one postscript encoder.
MaxCalls == 3
\* Longest sequence of operations called on one escape or star encoder (they
\* keep no state between calls but what the writer has received).
MaxEscCalls == 1
\* Text is called with strings of 0..MaxCpl*2+1 bytes.
MaxCpl == 8
\* The height in pixels of the tallest image: above the 240 pixels that fill
\* the page of height 30 at 1/8 pt for each pixel.
TallImage == 241
\* The most Writes a failing writer takes before its error.
MaxRoom == 3

\* The calls of one print job, Init and Print counted.
MaxJobCalls == 4

(***************************************************************************)
(* Program constants.                                                      *)
(***************************************************************************)
charWidth == 34
lineFeed == 10800
defaultHeight == 400000
defaultGrayLevel == 127
Left == 0
Center == 1
Right == 2
NoUnderling == 0
Code39 == 4
NUL == 0
BEL == 7
ESC == 27
GS == 29
styleRegular == "Regular"
styleBold == "Bold"

(***************************************************************************)
(* Go arithmetic.                                                          *)
(***************************************************************************)
minByte(a, b) == IF a < b THEN a ELSE b

maxByte(a, b) == IF a > b THEN a ELSE b

\* byte(n) of an int n: the low eight bits.
byte(n) == n % 256

\* n >> 8 of an int n (arithmetic shift).
shr8(n) == n \div 256

\* int(a / b) for floats a, b with b > 0: Go truncates toward zero.
TruncDiv(a, b) == IF a >= 0 THEN a \div b ELSE -((-a) \div b)

\* F of the value v: a local variable of the code, evaluated once.
With(v, F(_)) == F(v)

\* float64 values that may be NaN.
Num(v) == [nan |-> FALSE, v |-> v]

NaN == [nan |-> TRUE, v |-> 0]

\* a - b, a and b floats; NaN is absorbing.
FSub(a, b) == IF a.nan \/ b.nan THEN NaN ELSE Num(a.v - b.v)

\* a < b and a > b on floats: every comparison with NaN is false.
FLt(a, b) == ~a.nan /\ ~b.nan /\ a.v < b.v

FGt(a, b) == ~a.nan /\ ~b.nan /\ a.v > b.v

(***************************************************************************)
(* The writer.                                                             *)
(***************************************************************************)
\* The whole state as one record, so that a handler is a function from the
\* state before the call to the state after it.
Cur ==
    [dialect |-> dialect, imageFunc |-> imageFunc, cpl |-> cpl, ppl |-> ppl,
     barcodeFunc |-> barcodeFunc, barcodeWidth |-> barcodeWidth,
     barcodeHeight |-> barcodeHeight, hriPosition |-> hriPosition,
     tabPositions |-> tabPositions, width |-> width, height |-> height,
     x |-> x, y |-> y, tab |-> tab, row |-> row, font |-> font, bold |-> bold,
     sizeX |-> sizeX, sizeY |-> sizeY, align |-> align, underling |-> underling,
     grayLevel |-> grayLevel, sink |-> sink, barcodeCalls |-> barcodeCalls,
     status |-> status, qrcodeFunc |-> qrcodeFunc, qrcodeSize |-> qrcodeSize,
     qrcodeCorrectionLevel |-> qrcodeCorrectionLevel, writer |-> writer,
     failed |-> failed]

\* Write that goes on after an error of the writer.
WriteSwallowsError(c, bs) ==
    CHOOSE r \in {IF w.status # "ok" THEN w
                  ELSE IF ~w.writer.set THEN [w EXCEPT !.status = "panic"]
                  ELSE IF w.writer.fails /\ Len(w.sink) >= w.writer.room
                       THEN [w EXCEPT !.failed = @ + 1]
                  ELSE [w EXCEPT !.sink = Append(@, bs)] : w \in {c}} : TRUE

\* skipper.Write: one Write of bs.  It panics when no writer is set and when
\* the writer answers with an error (bytes of a Write that failed are not
\* counted as written); a call that has panicked writes no more.
Write(c, bs) ==
    CHOOSE r \in {IF w.status # "ok" THEN w
                  ELSE IF ~w.writer.set THEN [w EXCEPT !.status = "panic"]
                  ELSE IF w.writer.fails /\ Len(w.sink) >= w.writer.room
                       THEN [w EXCEPT !.status = "panic", !.failed = @ + 1]
                  ELSE [w EXCEPT !.sink = Append(@, bs)] : w \in {c}} : TRUE

(***************************************************************************)
(* Strings are sequences of bytes.                                         *)
(***************************************************************************)
BACKSLASH == 92
EURO == 128

\* The bytes of ") show showEuro (".
showEuro == <<41, 32, 115, 104, 111, 119, 32, 115, 104, 111, 119, 69, 117, 114, 111, 32, 40>>

\* strings.ReplaceAll(s, string(b), string(by)) for a single byte b.
RECURSIVE ReplaceAll(_, _, _)
ReplaceAll(s, b, by) ==
    IF s = <<>> THEN <<>>
    ELSE (IF Head(s) = b THEN by ELSE <<Head(s)>>) \o ReplaceAll(Tail(s), b, by)

\* encoder: the default text encoder, []byte(s).
encoder(s) == s

\* A caller's code-page encoder: the UTF-8 bytes of the euro sign become 0x80,
\* every other byte is kept.
RECURSIVE cp858(_)
cp858(s) ==
    IF s = <<>> THEN <<>>
    ELSE IF Len(s) >= 3 /\ SubSeq(s, 1, 3) = <<226, 130, 172>>
         THEN <<EURO>> \o cp858(SubSeq(s, 4, Len(s)))
         ELSE <<Head(s)>> \o cp858(Tail(s))

\* enc(s) for the enc argument of Text: "nil" selects the default encoder.
Encode(enc, s) == IF enc = "nil" THEN encoder(s) ELSE cp858(s)

RECURSIVE Flatten(_)
Flatten(ss) == IF ss = <<>> THEN <<>> ELSE Head(ss) \o Flatten(Tail(ss))

(***************************************************************************)
(* The postscript dialect: row, font, pages.                               *)
(***************************************************************************)
defaultFont == [style |-> styleRegular, sizeX |-> 1, sizeY |-> 1, changed |-> TRUE]

\* The default tab stops of NewPostscript: 34, 68, ..., 1054 pt.
defaultTabPositions == [k \in 1..31 |-> 34 * 8 * k]

\* row.setHeight(h): the row height becomes the larger of itself and the line
\* height of scale h, lineFeed * (1 if h <= 1, else 0.79 * h).
setHeight(r, h) ==
    LET q100 == IF h > 1 THEN 79 * h ELSE 100
        lh == (lineFeed * q100) \div 100
    IN  IF lh > r.height THEN [r EXCEPT !.height = lh] ELSE r

\* row.reset() that leaves the width.
resetKeepsWidth(r) == [r EXCEPT !.pieces = <<>>, !.height = lineFeed]

\* row.reset()
reset(r) == [r EXCEPT !.pieces = <<>>, !.height = lineFeed, !.width = 0]

\* font.setStyle(b, w, h), with swap and setChanged inlined.
setStyle(f, b, w, h) ==
    LET style == IF b THEN styleBold ELSE styleRegular
    IN  [style |-> style, sizeX |-> w, sizeY |-> h,
         changed |-> f.changed \/ f.style # style \/ f.sizeX # w \/ f.sizeY # h]

\* postscript.setPage(): the page header.
setPage(c) == Write(c, [op |-> "header", width |-> c.width, height |-> c.height])

\* postscript.setFont()
setFont(c) ==
    IF ~c.font.changed THEN c
    ELSE [Write(c, [op |-> "setfont", style |-> c.font.style,
                    sizeX |-> c.font.sizeX, sizeY |-> c.font.sizeY])
            EXCEPT !.font.changed = FALSE]

\* postscript.moveTo(px, py)
moveTo(c, px, py) == Write(c, [op |-> "moveto", x |-> px, y |-> py])

\* postscript.setLine(underling, offset, width): weight in 1/100.
setLine(c, u, offset, w) ==
    IF u = 0 THEN c
    ELSE Write(c, [op |-> "stroke", weight |-> IF u = 2 THEN 75 ELSE 25,
                   x0 |-> offset, x1 |-> offset + w, y |-> FSub(c.y, Num(2000))])

\* showPage that leaves the font as selected.
showPageKeepsFont(c) == Write([c EXCEPT !.y = Num(c.height)], [op |-> "showpage"])

\* postscript.showPage()
showPage(c) ==
    Write([c EXCEPT !.y = Num(c.height), !.font.changed = TRUE], [op |-> "showpage"])

\* newPage with the header of the next page before the page-show.
newPageHeaderFirst(c) == showPage(setPage(c))

\* postscript.newPage()
newPage(c) == setPage(showPage(c))

\* postscript.getOffset(w): where a row (or image) of width w starts.
getOffset(c, w) ==
    CASE c.align = Center -> (c.width - c.x - w) \div 2
      [] c.align = Right  -> c.width - c.x - w
      [] OTHER            -> 0

\* The loop of LineFeed over the pieces of the row, from offset.
RECURSIVE showPieces(_, _, _)
showPieces(c, pieces, offset) ==
    IF pieces = <<>> THEN c
    ELSE With(Head(pieces), LAMBDA p :
         With(offset + p.tab, LAMBDA o :
         With(setFont([c EXCEPT !.font = setStyle(@, p.bold, p.sizeX, p.sizeY)]), LAMBDA c1 :
         With(Write(moveTo(c1, o, c1.y), [op |-> "show", data |-> p.data]), LAMBDA c3 :
             showPieces(setLine(c3, p.underling, o, p.w), Tail(pieces), o + p.w)))))

\* LineFeed that, after a page break, leaves the cursor at the page height.
LineFeedNoAdvance(c) ==
    With([c EXCEPT !.y = FSub(@, Num(c.row.height))], LAMBDA c1 :
    With(IF FLt(c1.y, Num(lineFeed)) THEN newPage(c1) ELSE c1, LAMBDA c2 :
    With(showPieces(c2, c2.row.pieces, getOffset(c2, c2.row.width)), LAMBDA c3 :
        [c3 EXCEPT !.row = reset(@), !.x = 0])))

\* postscript.LineFeed(): the line flush.
LineFeed(c) ==
    With([c EXCEPT !.y = FSub(@, Num(c.row.height))], LAMBDA c1 :
    With(IF FLt(c1.y, Num(lineFeed))
         THEN With(newPage(c1), LAMBDA n : [n EXCEPT !.y = FSub(@, Num(n.row.height))])
         ELSE c1, LAMBDA c2 :
    With(showPieces(c2, c2.row.pieces, getOffset(c2, c2.row.width)), LAMBDA c3 :
        [c3 EXCEPT !.row = reset(@), !.x = 0])))

(***************************************************************************)
(* The postscript dialect: Text.                                           *)
(***************************************************************************)
\* splitLoop with the end test off by one (end + n > len(s)): a string that
\* fills its lines exactly gets an empty last chunk.
RECURSIVE splitLoopOffByOne(_, _, _, _, _)
splitLoopOffByOne(s, start, end, n, chunks) ==
    LET cs == Append(chunks, SubSeq(s, start + 1, end))
    IN  IF end + n > Len(s)
        THEN Append(cs, SubSeq(s, end + 1, Len(s)))
        ELSE splitLoopOffByOne(s, end, end + n, n, cs)

\* The loop of splitString once end < len(s): 0 <= start <= end, n >= 1.
RECURSIVE splitLoop(_, _, _, _, _)
splitLoop(s, start, end, n, chunks) ==
    LET cs == Append(chunks, SubSeq(s, start + 1, end))
    IN  IF end + n >= Len(s)
        THEN Append(cs, SubSeq(s, end + 1, Len(s)))
        ELSE splitLoop(s, end, end + n, n, cs)

\* postscript.splitString(s, offset, width): [res, chunks].  res is "panic"
\* when the first slice s[0:end] has end < 0 and "hang" when the loop never
\* ends (n = 0: end stays below len(s) and the chunk list grows for ever).
splitString(c, s, offset, w) ==
    LET n   == TruncDiv(c.width, w)
        end == IF offset > 0 THEN TruncDiv(c.width - offset, w) ELSE n
    IN  IF end >= Len(s) THEN [res |-> "ok", chunks |-> <<s>>]
        ELSE IF end < 0 THEN [res |-> "panic", chunks |-> <<>>]
        ELSE IF n = 0 THEN [res |-> "hang", chunks |-> <<>>]
        ELSE [res |-> "ok", chunks |-> splitLoop(s, 0, end, n, <<>>)]

\* The loop of Text over the parts; i is the index of Head(parts).  A panic
\* in a line flush ends it.
RECURSIVE addParts(_, _, _)
addParts(c, parts, i) ==
    IF parts = <<>> THEN c
    ELSE With(IF i > 0 THEN LineFeed(c) ELSE c, LAMBDA c1 :
             LET p  == Head(parts)
                 c2 == [c1 EXCEPT !.row = setHeight(@, c1.sizeY)]
                 d  == ReplaceAll(ReplaceAll(p, BACKSLASH, <<BACKSLASH, BACKSLASH>>),
                                  EURO, showEuro)
                 rowPiece == [data |-> d, w |-> Len(p) * c2.sizeX * charWidth,
                              tab |-> c2.tab, sizeX |-> c2.sizeX, sizeY |-> c2.sizeY,
                              underling |-> c2.underling, bold |-> c2.bold]
                 c3 == [c2 EXCEPT !.row.width = @ + c2.tab + rowPiece.w,
                                  !.row.pieces = Append(@, rowPiece),
                                  !.tab = 0]
             IN  IF c3.status # "ok" THEN c3 ELSE addParts(c3, Tail(parts), i + 1))

\* postscript.Text(s, enc)
psText(c, s, enc) ==
    IF Len(s) = 0 THEN c
    ELSE With([c EXCEPT !.row.align = c.align], LAMBDA c1 :
         With(splitString(c1, Encode(enc, s), c1.tab + c1.row.width, c1.sizeX * charWidth),
              LAMBDA sp :
             IF sp.res # "ok" THEN [c1 EXCEPT !.status = sp.res]
             ELSE addParts(c1, sp.chunks, 0)))

\* postscript.Tab(): the first tab stop beyond the row width.
RECURSIVE tabScan(_, _)
tabScan(c, stops) ==
    IF stops = <<>> THEN c
    ELSE IF c.row.width < Head(stops)
         THEN With([c EXCEPT !.tab = Head(stops) - c.row.width], LAMBDA c1 :
                  IF c1.tab > c1.width
                  THEN [LineFeed(c1) EXCEPT !.tab = 0]
                  ELSE c1)
         ELSE tabScan(c, Tail(stops))

psTab(c) == tabScan(c, c.tabPositions)

\* The loop of postscript.TabPositions over bs.
RECURSIVE tabStops(_, _, _, _)
tabStops(c, bs, previous, buf) ==
    IF bs = <<>> THEN buf
    ELSE LET n == Head(bs)
         IN  IF n <= previous THEN tabStops(c, Tail(bs), previous, buf)
             ELSE IF n * charWidth < c.width
                  THEN tabStops(c, Tail(bs), n, Append(buf, n * charWidth))
                  ELSE Append(buf, c.width)

\* postscript.TabPositions(bs...)
psTabPositions(c, bs) ==
    IF Len(bs) = 0 THEN c
    ELSE LET b16 == IF Len(bs) > 16 THEN SubSeq(bs, 1, 16) ELSE bs
         IN  [c EXCEPT !.tabPositions = tabStops(c, b16, 0, <<>>)]

\* postscript.CharSize(w, h)
psCharSize(c, w, h) == [c EXCEPT !.sizeX = minByte(w, 5) + 1, !.sizeY = minByte(h, 5) + 1]

\* postscript.Align(b)
psAlign(c, b) == [c EXCEPT !.align = minByte(b, 2)]

\* Bold that selects the font at once.
psBoldSelectsFont(c, b) ==
    Write([c EXCEPT !.bold = b],
          [op |-> "setfont", style |-> IF b THEN styleBold ELSE styleRegular,
           sizeX |-> c.sizeX, sizeY |-> c.sizeY])

\* postscript.Bold(b)
psBold(c, b) == [c EXCEPT !.bold = b]

\* postscript.Underling(b)
psUnderling(c, b) == [c EXCEPT !.underling = minByte(b, 2)]

\* postscript.Init()
psInit(c) ==
    setPage([c EXCEPT !.align = Left, !.underling = NoUnderling, !.font = defaultFont])

\* Print without the line flush.
psPrintNoFlush(c) == showPage(c)

\* postscript.Print()
psPrint(c) == showPage(LineFeed(c))

\* Sizing that leaves the page width.
psSizingKeepsWidth(c, ncpl, nppl) ==
    [c EXCEPT !.cpl = IF ncpl # 0 THEN ncpl ELSE @,
              !.ppl = IF nppl # 0 THEN nppl ELSE @]

\* postscript.Sizing(cpl, ppl), with skipper.Sizing.
psSizing(c, ncpl, nppl) ==
    [c EXCEPT !.cpl = IF ncpl # 0 THEN ncpl ELSE @,
              !.ppl = IF nppl # 0 THEN nppl ELSE @,
              !.width = IF ncpl # 0 THEN ncpl * charWidth ELSE @]

(***************************************************************************)
(* The rasterizer.  An image is [X, Y, pat]: its size and the pattern its  *)
(* pixels follow; a pixel is [A, Y], its alpha and its luminance as        *)
(* color.AlphaModel and color.GrayModel convert it.  The nil image has     *)
(* pat = "nil".                                                            *)
(***************************************************************************)
Opaque(lum) == [A |-> 255, Y |-> lum]

\* img.At(px, py)
At(img, px, py) ==
    CASE img.pat = "cols"  -> IF px % 2 = 0 THEN Opaque(0) ELSE Opaque(255)
      [] img.pat = "black" -> Opaque(0)
      [] img.pat = "pixel" -> [A |-> img.A, Y |-> img.L]
      [] OTHER             -> [A |-> 0, Y |-> 0]

\* gray with a pixel at the level counted as beyond it.
grayInclusive(px, level, invert) ==
    IF px.A < level THEN invert
    ELSE IF invert THEN px.Y >= level
    ELSE px.Y <= level

\* SetGrayLevel(l)
SetGrayLevelOp(c, l) == [c EXCEPT !.grayLevel = l]

\* ResetGrayLevel()
ResetGrayLevelOp(c) == [c EXCEPT !.grayLevel = defaultGrayLevel]

\* gray(c, level, invert): whether the pixel is foreground.
gray(px, level, invert) ==
    IF px.A < level THEN invert
    ELSE IF invert THEN px.Y > level
    ELSE px.Y < level

\* The bits of a byte counted from the low end.
bitLowFirst(b) == <<1, 2, 4, 8, 16, 32, 64, 128>>[b + 1]

\* 0x80 >> b for b in 0..7.
bit(b) == <<128, 64, 32, 16, 8, 4, 2, 1>>[b + 1]

RECURSIVE SumBits(_)
SumBits(bs) == IF bs = {} THEN 0 ELSE LET b == CHOOSE e \in bs : TRUE IN bit(b) + SumBits(bs \ {b})

\* ImageToBit(img, invert): [w, data], w bytes for each row of pixels.
ImageToBit(img, invert, lvl) ==
    LET w == img.X \div 8 + (IF img.X % 8 # 0 THEN 1 ELSE 0)
    IN  [w |-> w,
         data |-> [j \in 1..(w * img.Y) |->
                     LET py == (j - 1) \div w
                         bx == (j - 1) % w
                     IN  SumBits({b \in 0..7 : /\ 8 * bx + b < img.X
                                               /\ gray(At(img, 8 * bx + b, py), lvl, invert)})]]

\* The offset with a band shift of a whole band row of columns more.
binOffsetWideShift(img, px, py) == py \div 8 + (py \div 24) * (3 * img.X) + px * 3

\* The offset of pixel (px, py) in the buffer of ImageToBin.
binOffset(img, px, py) == py \div 8 + (py \div 24) * (3 * (img.X - 1)) + px * 3

\* ImageToBin(img, invert): [w, data, ok]; ok is FALSE when a foreground pixel
\* indexes data outside the buffer (a runtime panic).
ImageToBin(img, invert, lvl) ==
    LET rows == (img.Y \div 24 + (IF img.Y % 24 # 0 THEN 1 ELSE 0)) * 3
        fg   == {p \in (0..(img.X - 1)) \X (0..(img.Y - 1)) : gray(At(img, p[1], p[2]), lvl, invert)}
    IN  [w |-> img.X,
         ok |-> \A p \in fg : binOffset(img, p[1], p[2]) < rows * img.X,
         data |-> [j \in 1..(rows * img.X) |->
                     SumBits({p[2] % 8 : p \in {q \in fg : binOffset(img, q[1], q[2]) = j - 1}})]]

\* ImageToBytes(img, invert): [w, data], one byte for each pixel.
ImageToBytes(img, invert, lvl) ==
    [w |-> img.X,
     data |-> [j \in 1..(img.X * img.Y) |->
                 IF gray(At(img, (j - 1) % img.X, (j - 1) \div img.X), lvl, invert)
                 THEN 0 ELSE 255]]

(***************************************************************************)
(* The injected barcode generator (an external collaborator): it is called *)
(* with the data and the options, and the image it returns depends on      *)
(* both.                                                                   *)
(***************************************************************************)
barcodeImage(s, opts) == [X |-> opts.Mode + Len(s), Y |-> opts.Height, pat |-> "cols"]

\* The injected QR code generator: the image depends on the data and the options.
qrcodeImage(s, opts) ==
    [X |-> opts.Size + Len(s), Y |-> opts.CorrectionLevel + 1, pat |-> "cols"]

qrcodeOptions(c) == [CorrectionLevel |-> c.qrcodeCorrectionLevel, Size |-> c.qrcodeSize]

\* The setters of the skipper: they store the value, brought into the range
\* the Cmd interface gives for it.
skBarcodeWidth(c, b) == [c EXCEPT !.barcodeWidth = minByte(maxByte(b, 1), 6)]

skBarcodeHeight(c, b) == [c EXCEPT !.barcodeHeight = maxByte(b, 1)]

skHRIPosition(c, b) == [c EXCEPT !.hriPosition = minByte(b, 3)]

skQRCodeSize(c, b) == [c EXCEPT !.qrcodeSize = minByte(maxByte(b, 1), 8)]

skQRCodeCorrectionLevel(c, b) == [c EXCEPT !.qrcodeCorrectionLevel = minByte(b, 3)]

\* c.barcodeFunc(s, BarcodeOptions{Mode: m, Width: c.barcodeWidth, Height: c.barcodeHeight})
callBarcodeFunc(c, m, s) ==
    [c EXCEPT !.barcodeCalls =
        Append(@, [data |-> s, Mode |-> m, Width |-> c.barcodeWidth, Height |-> c.barcodeHeight])]

barcodeOptions(c, m) == [Mode |-> m, Width |-> c.barcodeWidth, Height |-> c.barcodeHeight]

(***************************************************************************)
(* Image.                                                                  *)
(***************************************************************************)
\* The bytes of the diagnostic postscript.image queues for an image taller than the page.
tooHigh ==
    <<116,104,101,32,104,101,105,103,104,116,32,111,102,32,116,104,101,32,105,109,
      97,103,101,32,105,115,32,103,114,101,97,116,101,114,32,116,104,97,110,32,116,
      104,101,32,104,101,105,103,104,116,32,111,102,32,116,104,101,32,112,97,103,101>>

\* postscript.image that draws whatever the height is.
psImageDrawsAnyway(c, iw, ih, bs) ==
    With((iw * c.width) \div c.ppl, LAMBDA w :
    With(IF iw = 0 THEN NaN
         ELSE IF ih = 0 THEN Num(0)
         ELSE Num((iw * c.width * 125 * ih) \div (c.ppl * iw)), LAMBDA h :
    With([c EXCEPT !.y = FSub(@, h)], LAMBDA c1 :
    With(IF FLt(c1.y, Num(lineFeed))
         THEN With(newPage(c1), LAMBDA n : [n EXCEPT !.y = FSub(@, h)])
         ELSE c1, LAMBDA c2 :
    With([c2 EXCEPT !.y = FSub(@, Num(4000))], LAMBDA c3 :
        Write(c3, [op |-> "image", width |-> iw, height |-> ih,
                   x |-> getOffset(c3, w), y |-> c3.y, w |-> w, h |-> h,
                   data |-> bs]))))))

\* postscript.image(width, height, bs).  w = width / (PPL / c.width) in HU and
\* h = w / (width / height) in VU, rounded down; h is NaN for width = 0
\* (0 / (0 / height)) and 0 for height = 0 (w / +Inf).
psImage(c, iw, ih, bs) ==
    With((iw * c.width) \div c.ppl, LAMBDA w :
    With(IF iw = 0 THEN NaN
         ELSE IF ih = 0 THEN Num(0)
         ELSE Num((iw * c.width * 125 * ih) \div (c.ppl * iw)), LAMBDA h :
        IF FGt(h, Num(c.height)) THEN psText(c, tooHigh, "nil")
        ELSE With([c EXCEPT !.y = FSub(@, h)], LAMBDA c1 :
             With(IF FLt(c1.y, Num(lineFeed))
                  THEN With(newPage(c1), LAMBDA n : [n EXCEPT !.y = FSub(@, h)])
                  ELSE c1, LAMBDA c2 :
             With([c2 EXCEPT !.y = FSub(@, Num(4000))], LAMBDA c3 :
                 Write(c3, [op |-> "image", width |-> iw, height |-> ih,
                            x |-> getOffset(c3, w), y |-> c3.y, w |-> w, h |-> h,
                            data |-> bs]))))))

\* postscript.Image(img, invert)
psImageOp(c, img, invert) ==
    IF img.pat = "nil" THEN c
    ELSE psImage(c, img.X, img.Y, ImageToBytes(img, invert, c.grayLevel).data)

\* escape.imageObsolete(img, invert): GS v 0
imageObsolete(c, img, invert) ==
    With(ImageToBit(img, invert, c.grayLevel), LAMBDA r :
    With(Len(r.data), LAMBDA l :
    With(l \div r.w, LAMBDA h :
        IF l = 0 THEN c
        ELSE Write(Write(c, <<GS, 118, 0, 0, byte(r.w), byte(shr8(r.w)), byte(h), byte(shr8(h))>>),
                   r.data))))

\* escape.imageV1(img, invert): GS 8 L ... GS ( L
imageV1(c, img, invert) ==
    With(ImageToBit(img, invert, c.grayLevel), LAMBDA r :
    With(Len(r.data), LAMBDA l :
    With(10 + l, LAMBDA p :
    With(r.w * 8, LAMBDA px :
    With(l \div r.w, LAMBDA py :
        IF l = 0 THEN c
        ELSE Write(Write(Write(c,
                <<GS, 56, 76, byte(p), byte(shr8(p)), byte(shr8(shr8(p))), byte(shr8(shr8(shr8(p)))),
                  48, 112, 48, 1, 1, 49, byte(px), byte(shr8(px)), byte(py), byte(shr8(py))>>),
                r.data),
                <<GS, 40, 76, 2, 0, 48, 2>>))))))

\* The loop of the banded transfer without its last band.
RECURSIVE bandsDropLast(_, _, _, _, _, _)
bandsDropLast(c, bs, start, block, head, feed) ==
    IF start + block >= Len(bs) THEN c
    ELSE LET end == minByte(start + block, Len(bs))
             c1  == IF Len(head) = 2 THEN Write(Write(c, head[1]), head[2]) ELSE Write(c, head[1])
         IN  bandsDropLast(Write(Write(c1, SubSeq(bs, start + 1, end)), feed), bs, end, block, head, feed)

\* The loop of the banded transfer: head is written before each band, feed after it.
\* With block = 0 and bytes left, end stays at start: the loop never ends.
RECURSIVE bands(_, _, _, _, _, _)
bands(c, bs, start, block, head, feed) ==
    IF start >= Len(bs) THEN c
    ELSE IF block = 0 THEN [c EXCEPT !.status = "hang"]
    ELSE LET end == minByte(start + block, Len(bs))
             c1  == IF Len(head) = 2 THEN Write(Write(c, head[1]), head[2]) ELSE Write(c, head[1])
         IN  bands(Write(Write(c1, SubSeq(bs, start + 1, end)), feed), bs, end, block, head, feed)

\* escape.imageV2(img, invert): ESC * ! ... ESC J
imageV2(c, img, invert) ==
    With(ImageToBin(img, invert, c.grayLevel), LAMBDA r :
        IF ~r.ok THEN [c EXCEPT !.status = "panic"]
        ELSE bands(c, r.data, 0, r.w * 3,
                   << <<ESC, 42, 33, byte(r.w), byte(shr8(r.w))>> >>, <<ESC, 74, 24>>))

\* star.Image(img, invert)
starImage(c, img, invert) ==
    With(ImageToBin(img, invert, c.grayLevel), LAMBDA r :
        IF ~r.ok THEN [c EXCEPT !.status = "panic"]
        ELSE bands(c, r.data, 0, r.w * 3,
                   << <<18>>, <<ESC, 88, byte(r.w), byte(shr8(r.w))>> >>, <<ESC, 74, 12>>))

\* escape.Image(img, invert): c.imageFunc(img, invert)
escImage(c, img, invert) ==
    CASE c.imageFunc = "imageV1" -> imageV1(c, img, invert)
      [] c.imageFunc = "imageV2" -> imageV2(c, img, invert)
      [] OTHER                   -> imageObsolete(c, img, invert)

\* Cmd.Image of the dialect.  The escape and star encoders read img.Bounds()
\* of a nil image: a nil dereference.
ImageOp(c, img, invert) ==
    IF c.dialect = "postscript" THEN psImageOp(c, img, invert)
    ELSE IF img.pat = "nil" THEN [c EXCEPT !.status = "panic"]
    ELSE IF c.dialect = "star" THEN starImage(c, img, invert)
    ELSE escImage(c, img, invert)

\* skipper.Sizing(cpl, ppl)
skSizing(c, ncpl, nppl) ==
    [c EXCEPT !.cpl = IF ncpl # 0 THEN ncpl ELSE @,
              !.ppl = IF nppl # 0 THEN nppl ELSE @]

\* skipper.Text(str, enc)
skText(c, s, enc) == Write(c, Encode(enc, s))

(***************************************************************************)
(* The escape dialect.                                                     *)
(***************************************************************************)
\* LeftMargin that lets n = PPL through.
escLeftMarginInclusive(c, n) ==
    IF n <= c.ppl THEN Write(c, <<GS, 76, byte(n), byte(shr8(n))>>) ELSE c

escLeftMargin(c, n) == IF n < c.ppl THEN Write(c, <<GS, 76, byte(n), byte(shr8(n))>>) ELSE c

escWidthArea(c, n) == IF n <= c.ppl THEN Write(c, <<GS, 87, byte(n), byte(shr8(n))>>) ELSE c

escAbsolutePosition(c, n) == IF n < c.ppl THEN Write(c, <<ESC, 36, byte(n), byte(shr8(n))>>) ELSE c

escAlign(c, b) == Write(c, <<ESC, 97, minByte(b, 2)>>)

escUnderling(c, b) == Write(c, <<ESC, 45, minByte(b, 2)>>)

\* minByte(w, 5)<<4 + minByte(h, 5), a byte.
escCharSize(c, w, h) == Write(c, <<GS, 33, byte(minByte(w, 5) * 16 + minByte(h, 5))>>)

\* escape.Bold(b): ESC 'E' 1 or ESC 'E' 0.
escBold(c, b) == Write(c, <<ESC, 69, IF b THEN 1 ELSE 0>>)

\* escape.Init(): ESC '@'.
escInit(c) == Write(c, <<ESC, 64>>)

\* The loop of escape.TabPositions and star.TabPositions over bs.
RECURSIVE increasing(_, _)
increasing(bs, previous) ==
    IF bs = <<>> THEN <<>>
    ELSE IF Head(bs) <= previous THEN increasing(Tail(bs), previous)
    ELSE <<Head(bs)>> \o increasing(Tail(bs), Head(bs))

\* TabPositions that filters the whole input and truncates the kept stops.
TabPositionsFilterFirst(bs, max) ==
    LET kept == increasing(bs, 0)
        cut  == IF Len(kept) > max THEN SubSeq(kept, 1, max) ELSE kept
    IN  <<ESC, 68>> \o cut \o <<NUL>>

\* TabPositions of the escape (max = 32) and star (max = 16) encoders.
TabPositionsBytes(bs, max) ==
    LET cut == IF Len(bs) > max THEN SubSeq(bs, 1, max) ELSE bs
    IN  <<ESC, 68>> \o increasing(cut, 0) \o <<NUL>>

escTabPositions(c, bs) == IF Len(bs) = 0 THEN c ELSE Write(c, TabPositionsBytes(bs, 32))

\* escape.Cut(m, p)
escCut(c, m, p) ==
    LET m3 == minByte(m, 3)
    IN  IF m3 \in {0, 1} THEN Write(c, <<GS, 86, m3>>)
        ELSE Write(c, <<GS, 86, m3 + 63, p>>)

\* escape.FullCut()
escFullCut(c) == escCut(c, 65, 10)

\* escape.OpenCashDrawer(m, t1, t2)
escOpenCashDrawer(c, m, t1, t2) ==
    IF t1 = 0 \/ t2 = 0 THEN c
    ELSE IF t1 > t2 THEN Write(c, <<ESC, 112, minByte(m, 1), t2, t1>>)
    ELSE Write(c, <<ESC, 112, minByte(m, 1), t1, t2>>)

escBarcodeType(m) == <<65, 66, 68, 67, 69, 72, 73, 70, 71, 74, 75, 76, 77, 78>>[m + 1]

\* escape.Barcode(m, s)
\* escape.Barcode that writes the native command whatever generator is set.
escBarcodeNative(c, m, s) ==
    LET l  == Len(s)
        m4 == IF m > 13 THEN 4 ELSE m
    IN  IF l = 0 THEN c
        ELSE skText(Write(c, <<GS, 107, escBarcodeType(m4), byte(l)>>), s, "nil")

escBarcode(c, m, s) ==
    LET l  == Len(s)
        m4 == IF m > 13 THEN 4 ELSE m
    IN  IF l = 0 THEN c
        ELSE IF c.barcodeFunc
             THEN ImageOp(callBarcodeFunc(c, m4, s), barcodeImage(s, barcodeOptions(c, m4)), FALSE)
             ELSE skText(Write(c, <<GS, 107, escBarcodeType(m4), byte(l)>>), s, "nil")

\* escape.BarcodeWidth(b)
escBarcodeWidth(c, b) ==
    LET c1 == skBarcodeWidth(c, b)
    IN  IF ~c1.barcodeFunc THEN Write(c1, <<GS, 119, c1.barcodeWidth>>) ELSE c1

\* escape.BarcodeHeight(b)
escBarcodeHeight(c, b) ==
    LET c1 == skBarcodeHeight(c, b)
    IN  IF ~c1.barcodeFunc THEN Write(c1, <<GS, 104, c1.barcodeHeight>>) ELSE c1

\* escape.HRIFont(b)
escHRIFont(c, b) == IF ~c.barcodeFunc THEN Write(c, <<GS, 102, minByte(b, 1)>>) ELSE c

\* escape.HRIPosition(b)
escHRIPosition(c, b) ==
    LET c1 == skHRIPosition(c, b)
    IN  IF ~c1.barcodeFunc THEN Write(c1, <<GS, 72, minByte(b, 3)>>) ELSE c1

\* escape.QRCodeSize(b)
escQRCodeSize(c, b) ==
    LET c1 == skQRCodeSize(c, b)
    IN  IF ~c1.qrcodeFunc THEN Write(c1, <<GS, 40, 107, 3, 0, 49, 67, c1.qrcodeSize>>) ELSE c1

\* escape.QRCodeCorrectionLevel(b)
escQRCodeCorrectionLevel(c, b) ==
    LET c1 == skQRCodeCorrectionLevel(c, b)
    IN  IF ~c1.qrcodeFunc
        THEN Write(c1, <<GS, 40, 107, 3, 0, 49, 69, byte(c1.qrcodeCorrectionLevel + 48)>>)
        ELSE c1

\* escape.QRCode(s)
escQRCode(c, s) ==
    LET l == Len(s) + 3
    IN  IF Len(s) = 0 THEN c
        ELSE IF c.qrcodeFunc THEN ImageOp(c, qrcodeImage(s, qrcodeOptions(c)), FALSE)
        ELSE Write(skText(Write(c, <<GS, 40, 107, byte(l), byte(shr8(l)), 49, 80, 48>>), s, "nil"),
                   <<GS, 40, 107, 3, 0, 49, 81, 48>>)

(***************************************************************************)
(* The star dialect.                                                       *)
(***************************************************************************)
starLeftMargin(c, n) == IF n < c.cpl THEN Write(c, <<ESC, 108, byte(n)>>) ELSE c

starWidthArea(c, n) == IF n <= c.cpl THEN Write(c, <<ESC, 81, byte(n)>>) ELSE c

starAbsolutePosition(c, n) == IF n < c.ppl THEN Write(c, <<ESC, GS, 65, byte(n), byte(shr8(n))>>) ELSE c

starAlign(c, b) == Write(c, <<ESC, GS, 97, minByte(b, 2)>>)

starUnderling(c, b) == Write(c, <<ESC, 45, minByte(b, 1)>>)

starCharSize(c, w, h) == Write(c, <<ESC, 105, minByte(h, 5), minByte(w, 5)>>)

\* star.Bold(b): ESC 'E' or ESC 'F'.
starBold(c, b) == Write(c, <<ESC, IF b THEN 69 ELSE 70>>)

\* star.Init(): ESC '@'.
starInit(c) == Write(c, <<ESC, 64>>)

starTabPositions(c, bs) == IF Len(bs) = 0 THEN c ELSE Write(c, TabPositionsBytes(bs, 16))

\* star.Cut(m, _)
starCut(c, m, p) == Write(c, <<ESC, 100, minByte(m, 3)>>)

\* star.FullCut()
starFullCut(c) == starCut(c, 2, 0)

\* star.OpenCashDrawer with the swap of the escape encoder.
starOpenCashDrawerSwap(c, m, t1, t2) ==
    IF t1 = 0 \/ t2 = 0 THEN c
    ELSE IF t1 > t2 THEN Write(c, <<ESC, GS, BEL, minByte(m, 1) + 1, t2, t1>>)
    ELSE Write(c, <<ESC, GS, BEL, minByte(m, 1) + 1, t1, t2>>)

\* star.OpenCashDrawer(m, t1, t2)
starOpenCashDrawer(c, m, t1, t2) ==
    IF t1 = 0 \/ t2 = 0 THEN c
    ELSE Write(c, <<ESC, GS, BEL, minByte(m, 1) + 1, t1, t2>>)

starBarcodeType(m) == <<49, 48, 50, 51, 52, 55, 54, 53, 56, 57, 65, 66, 67, 68>>[m + 1]

\* star.Barcode(m, s)
starBarcode(c, m, s) ==
    LET m4 == IF m > 13 THEN 4 ELSE m
    IN  IF Len(s) = 0 THEN c
        ELSE IF c.barcodeFunc
             THEN ImageOp(callBarcodeFunc(c, m4, s), barcodeImage(s, barcodeOptions(c, m4)), FALSE)
             ELSE Write(skText(Write(c, <<ESC, 98, starBarcodeType(m4),
                                          minByte(maxByte(c.hriPosition, 1), 2),
                                          c.barcodeWidth, c.barcodeHeight>>), s, "nil"),
                        <<30>>)

\* star.QRCodeSize(b)
starQRCodeSize(c, b) ==
    LET c1 == skQRCodeSize(c, b)
    IN  IF ~c1.qrcodeFunc THEN Write(c1, <<ESC, GS, 121, 83, 50, c1.qrcodeSize>>) ELSE c1

\* star.QRCodeCorrectionLevel(b)
starQRCodeCorrectionLevel(c, b) ==
    LET c1 == skQRCodeCorrectionLevel(c, b)
    IN  IF ~c1.qrcodeFunc THEN Write(c1, <<ESC, GS, 121, 83, 49, c1.qrcodeCorrectionLevel>>)
        ELSE c1

\* star.QRCode(s)
starQRCode(c, s) ==
    LET l == Len(s)
    IN  IF l = 0 THEN c
        ELSE IF c.qrcodeFunc THEN ImageOp(c, qrcodeImage(s, qrcodeOptions(c)), FALSE)
        ELSE Write(skText(Write(c, <<ESC, GS, 121, 68, 49, 0, byte(l), byte(shr8(l))>>), s, "nil"),
                   <<ESC, GS, 121, 80>>)

\* postscript.QRCode(s)
psQRCode(c, s) ==
    IF ~c.qrcodeFunc \/ Len(s) = 0 THEN c
    ELSE ImageOp(c, qrcodeImage(s, qrcodeOptions(c)), FALSE)

\* postscript.Barcode(m, s)
psBarcode(c, m, s) ==
    IF ~c.barcodeFunc \/ Len(s) = 0 THEN c
    ELSE ImageOp(callBarcodeFunc(c, m, s), barcodeImage(s, barcodeOptions(c, m)), FALSE)

(***************************************************************************)
(* Construction.                                                           *)
(***************************************************************************)
\* The (cpl, ppl) the encoders are built with.
Sizes == {<<2, 76>>, <<MaxCpl, MaxCpl * charWidth + 8>>}

\* The page heights: the default and WithPageHeight(30).
PageHeights == {defaultHeight, 30000}

\* The writers an encoder is built with: none (nil), one that takes every
\* Write, and one that takes room Writes and answers the next with an error.
ReliableWriter == [set |-> TRUE, fails |-> FALSE, room |-> 0]

Writers ==
    {[set |-> FALSE, fails |-> FALSE, room |-> 0], ReliableWriter}
        \cup {[set |-> TRUE, fails |-> TRUE, room |-> r] : r \in 0..MaxRoom}

\* The fields every constructor sets through newSkipper and the options.
\* No rasterize call is running.
NoRaster ==
    [pc |-> "idle", kind |-> "none", img |-> [X |-> 0, Y |-> 0, pat |-> "nil"],
     invert |-> FALSE, lvl |-> 0, loads |-> 0, fg |-> <<>>]

InitSkipper ==
    /\ barcodeFunc \in BOOLEAN
    /\ barcodeWidth = 2
    /\ barcodeHeight = 2
    /\ hriPosition = 1
    /\ qrcodeFunc \in BOOLEAN
    /\ qrcodeSize = 3
    /\ qrcodeCorrectionLevel = 1
    /\ writer \in Writers
    /\ failed = 0
    /\ grayLevel = defaultGrayLevel
    /\ sink = <<>>
    /\ barcodeCalls = <<>>
    /\ status = "ok"
    /\ calls = 0
    /\ last = [op |-> "New", args |-> <<>>]
    /\ raster = NoRaster
    /\ stores = {}

\* The fields of the postscript struct as NewPostscript sets them for page height h.
InitLayout(h) ==
    /\ tabPositions = defaultTabPositions
    /\ width = cpl * charWidth + 8
    /\ height = h
    /\ x = 0
    /\ y = Num(h)
    /\ tab = 0
    /\ row = [pieces |-> <<>>, height |-> 0, width |-> 0, align |-> 0]
    /\ font = defaultFont
    /\ bold = FALSE
    /\ sizeX = 1
    /\ sizeY = 1
    /\ align = 0
    /\ underling = 0

\* NewPostscript(cpl, ppl, w, opts...)
NewPostscript ==
    /\ dialect = "postscript"
    /\ imageFunc = "none"
    /\ \E sz \in Sizes : cpl = sz[1] /\ ppl = sz[2]
    /\ \E h \in PageHeights : InitLayout(h)
    /\ InitSkipper

\* NewEscape(cpl, ppl, w, opts...), with WithImageFuncVersion
NewEscape ==
    /\ dialect = "escape"
    /\ imageFunc \in {"imageObsolete", "imageV1", "imageV2"}
    /\ cpl = MaxCpl /\ ppl = MaxCpl * charWidth + 8
    /\ InitLayout(defaultHeight)
    /\ InitSkipper

\* NewStar(cpl, ppl, w, opts...)
NewStar ==
    /\ dialect = "star"
    /\ imageFunc = "none"
    /\ cpl = MaxCpl /\ ppl = MaxCpl * charWidth + 8
    /\ InitLayout(defaultHeight)
    /\ InitSkipper

(***************************************************************************)
(* The operations of Cmd, dispatched on the dialect.  An operation the     *)
(* dialect does not implement is the skipper's, which does nothing.        *)
(***************************************************************************)
TextOp(c, s, enc) ==
    IF c.dialect = "postscript" THEN psText(c, s, enc) ELSE skText(c, s, enc)

TabOp(c) == IF c.dialect = "postscript" THEN psTab(c) ELSE Write(c, <<9>>)

LineFeedOp(c) == IF c.dialect = "postscript" THEN LineFeed(c) ELSE Write(c, <<10>>)

TabPositionsOp(c, bs) ==
    CASE c.dialect = "postscript" -> psTabPositions(c, bs)
      [] c.dialect = "star"       -> starTabPositions(c, bs)
      [] OTHER                    -> escTabPositions(c, bs)

CharSizeOp(c, w, h) ==
    CASE c.dialect = "postscript" -> psCharSize(c, w, h)
      [] c.dialect = "star"       -> starCharSize(c, w, h)
      [] OTHER                    -> escCharSize(c, w, h)

AlignOp(c, b) ==
    CASE c.dialect = "postscript" -> psAlign(c, b)
      [] c.dialect = "star"       -> starAlign(c, b)
      [] OTHER                    -> escAlign(c, b)

UnderlingOp(c, b) ==
    CASE c.dialect = "postscript" -> psUnderling(c, b)
      [] c.dialect = "star"       -> starUnderling(c, b)
      [] OTHER                    -> escUnderling(c, b)

LeftMarginOp(c, n) ==
    CASE c.dialect = "postscript" -> c
      [] c.dialect = "star"       -> starLeftMargin(c, n)
      [] OTHER                    -> escLeftMargin(c, n)

WidthAreaOp(c, n) ==
    CASE c.dialect = "postscript" -> c
      [] c.dialect = "star"       -> starWidthArea(c, n)
      [] OTHER                    -> escWidthArea(c, n)

AbsolutePositionOp(c, n) ==
    CASE c.dialect = "postscript" -> c
      [] c.dialect = "star"       -> starAbsolutePosition(c, n)
      [] OTHER                    -> escAbsolutePosition(c, n)

CutOp(c, m, p) ==
    CASE c.dialect = "postscript" -> c
      [] c.dialect = "star"       -> starCut(c, m, p)
      [] OTHER                    -> escCut(c, m, p)

FullCutOp(c) ==
    CASE c.dialect = "postscript" -> c
      [] c.dialect = "star"       -> starFullCut(c)
      [] OTHER                    -> escFullCut(c)

OpenCashDrawerOp(c, m, t1, t2) ==
    CASE c.dialect = "postscript" -> c
      [] c.dialect = "star"       -> starOpenCashDrawer(c, m, t1, t2)
      [] OTHER                    -> escOpenCashDrawer(c, m, t1, t2)

BarcodeOp(c, m, s) ==
    CASE c.dialect = "postscript" -> psBarcode(c, m, s)
      [] c.dialect = "star"       -> starBarcode(c, m, s)
      [] OTHER                    -> escBarcode(c, m, s)

QRCodeOp(c, s) ==
    CASE c.dialect = "postscript" -> psQRCode(c, s)
      [] c.dialect = "star"       -> starQRCode(c, s)
      [] OTHER                    -> escQRCode(c, s)

BarcodeWidthOp(c, b) == IF c.dialect = "escape" THEN escBarcodeWidth(c, b) ELSE skBarcodeWidth(c, b)

BarcodeHeightOp(c, b) ==
    IF c.dialect = "escape" THEN escBarcodeHeight(c, b) ELSE skBarcodeHeight(c, b)

HRIFontOp(c, b) == IF c.dialect = "escape" THEN escHRIFont(c, b) ELSE c

HRIPositionOp(c, b) == IF c.dialect = "escape" THEN escHRIPosition(c, b) ELSE skHRIPosition(c, b)

QRCodeSizeOp(c, b) ==
    CASE c.dialect = "escape" -> escQRCodeSize(c, b)
      [] c.dialect = "star"   -> starQRCodeSize(c, b)
      [] OTHER                -> skQRCodeSize(c, b)

QRCodeCorrectionLevelOp(c, b) ==
    CASE c.dialect = "escape" -> escQRCodeCorrectionLevel(c, b)
      [] c.dialect = "star"   -> starQRCodeCorrectionLevel(c, b)
      [] OTHER                -> skQRCodeCorrectionLevel(c, b)

BoldOp(c, b) ==
    CASE c.dialect = "postscript" -> psBold(c, b)
      [] c.dialect = "star"       -> starBold(c, b)
      [] OTHER                    -> escBold(c, b)

InitOp(c) ==
    CASE c.dialect = "postscript" -> psInit(c)
      [] c.dialect = "star"       -> starInit(c)
      [] OTHER                    -> escInit(c)

\* Print is the skipper's in escape and star.
PrintOp(c) == IF c.dialect = "postscript" THEN psPrint(c) ELSE c

\* Sizing is the skipper's in escape and star.
SizingOp(c, ncpl, nppl) ==
    IF c.dialect = "postscript" THEN psSizing(c, ncpl, nppl) ELSE skSizing(c, ncpl, nppl)

(***************************************************************************)
(* The arguments the operations are called with.                           *)
(***************************************************************************)
\* A string of n bytes: a, \, b, 0x80, c, a, \, ...
Str(n) == [i \in 1..n |-> <<97, BACKSLASH, 98, EURO, 99>>[((i - 1) % 5) + 1]]

\* The strings Text is called with, each with its encoder: lengths around one
\* and two lines of the narrow and of the wide page, and "€d" in UTF-8.
TextInputs ==
    {<<Str(n), "nil">> : n \in {0, 1, 5, MaxCpl, 2 * MaxCpl + 1}}
        \cup {<<(<<226, 130, 172, 100>>), "cp858">>}

\* 1, 1, 2, 3, ..., n - 1: n values, the first one repeated.
Stops(n) == [i \in 1..n |-> IF i = 1 THEN 1 ELSE i - 1]

TabInputs == {<<>>, <<10, 5, 20, 20, 30>>, Stops(17), Stops(33)}

ByteInputs == {0, 1, 2, 200}

SizeInputs == {<<0, 0>>, <<1, 1>>, <<7, 9>>}

MarginInputs ==
    {-1, 0, MaxCpl - 1, MaxCpl, MaxCpl + 1,
     MaxCpl * charWidth + 7, MaxCpl * charWidth + 8, MaxCpl * charWidth + 9}

CutInputs == {<<0, 0>>, <<1, 0>>, <<2, 10>>, <<2, 0>>, <<3, 10>>, <<65, 10>>, <<66, 10>>}

PulseInputs ==
    {<<0, 200, 50>>, <<0, 50, 200>>, <<1, 0, 50>>, <<1, 50, 0>>, <<9, 7, 7>>, <<0, 0, 0>>}

BarcodeInputs == {Code39, 13, 14, 99} \X {<<>>, <<49, 50>>}

\* The sizes Sizing is called with: nothing, both, the pixels only.
SizingInputs == {<<0, 0>>, <<4, 152>>, <<0, 76>>}

\* The gray levels SetGrayLevel is called with.
GrayLevels == {0, 100, 255}

\* Images of one pixel of alpha A and luminance L, around the gray levels.
PixelImages ==
    {[X |-> 1, Y |-> 1, pat |-> "pixel", A |-> a, L |-> l] :
        a \in {99, 100, 255}, l \in {99, 100, 101, 127}}

QRInputs == {<<>>, <<49, 50>>, <<104, 116, 116, 112>>}

Images ==
    {[X |-> 0, Y |-> 0, pat |-> "cols"], [X |-> 0, Y |-> 2, pat |-> "cols"],
     [X |-> 3, Y |-> 0, pat |-> "cols"], [X |-> 3, Y |-> 2, pat |-> "cols"],
     [X |-> 9, Y |-> 1, pat |-> "black"], [X |-> 2, Y |-> 25, pat |-> "black"]}

\* Images for the page of height 30: a low one, one exactly as high as the
\* page (240 rows of 1/8) and one higher than the page.
PageImages ==
    {[X |-> 2, Y |-> 25, pat |-> "black"], [X |-> 1, Y |-> 240, pat |-> "black"],
     [X |-> 1, Y |-> TallImage, pat |-> "black"]}

(***************************************************************************)
(* The actions: one call of one operation.                                 *)
(***************************************************************************)
MayCall ==
    /\ status = "ok"
    /\ calls < (IF dialect = "postscript" THEN MaxCalls ELSE MaxEscCalls)

\* The call of op with args returned (or ended) in state c.
Do(c, op, args) ==
    \E r \in {c} :
        /\ calls' = calls + 1
        /\ last' = [op |-> op, args |-> args]
        /\ dialect' = r.dialect /\ imageFunc' = r.imageFunc
        /\ cpl' = r.cpl /\ ppl' = r.ppl
        /\ barcodeFunc' = r.barcodeFunc /\ barcodeWidth' = r.barcodeWidth
        /\ barcodeHeight' = r.barcodeHeight /\ hriPosition' = r.hriPosition
        /\ tabPositions' = r.tabPositions /\ width' = r.width /\ height' = r.height
        /\ x' = r.x /\ y' = r.y /\ tab' = r.tab /\ row' = r.row /\ font' = r.font
        /\ bold' = r.bold /\ sizeX' = r.sizeX /\ sizeY' = r.sizeY
        /\ align' = r.align /\ underling' = r.underling
        /\ grayLevel' = r.grayLevel /\ sink' = r.sink
        /\ barcodeCalls' = r.barcodeCalls /\ status' = r.status
        /\ qrcodeFunc' = r.qrcodeFunc /\ qrcodeSize' = r.qrcodeSize
        /\ qrcodeCorrectionLevel' = r.qrcodeCorrectionLevel
        /\ writer' = r.writer /\ failed' = r.failed
        /\ stores' = IF op \in {"SetGrayLevel", "ResetGrayLevel"}
                     THEN stores \cup {r.grayLevel} ELSE stores
        /\ raster' = raster

Text == MayCall /\ \E in \in TextInputs : Do(TextOp(Cur, in[1], in[2]), "Text", in)

Tab == MayCall /\ Do(TabOp(Cur), "Tab", <<>>)

LineFeedCall == MayCall /\ Do(LineFeedOp(Cur), "LineFeed", <<>>)

TabPositions == MayCall /\ \E bs \in TabInputs : Do(TabPositionsOp(Cur, bs), "TabPositions", bs)

CharSize == MayCall /\ \E wh \in SizeInputs : Do(CharSizeOp(Cur, wh[1], wh[2]), "CharSize", wh)

Align == MayCall /\ \E b \in ByteInputs : Do(AlignOp(Cur, b), "Align", <<b>>)

Underling == MayCall /\ \E b \in ByteInputs : Do(UnderlingOp(Cur, b), "Underling", <<b>>)

LeftMargin == MayCall /\ \E n \in MarginInputs : Do(LeftMarginOp(Cur, n), "LeftMargin", <<n>>)

WidthArea == MayCall /\ \E n \in MarginInputs : Do(WidthAreaOp(Cur, n), "WidthArea", <<n>>)

AbsolutePosition ==
    MayCall /\ \E n \in MarginInputs : Do(AbsolutePositionOp(Cur, n), "AbsolutePosition", <<n>>)

Cut == MayCall /\ \E mp \in CutInputs : Do(CutOp(Cur, mp[1], mp[2]), "Cut", mp)

FullCut == MayCall /\ Do(FullCutOp(Cur), "FullCut", <<>>)

OpenCashDrawer ==
    MayCall /\ \E a \in PulseInputs : Do(OpenCashDrawerOp(Cur, a[1], a[2], a[3]), "OpenCashDrawer", a)

Barcode == MayCall /\ \E a \in BarcodeInputs : Do(BarcodeOp(Cur, a[1], a[2]), "Barcode", a)

Image ==
    MayCall /\ \E img \in Images, invert \in BOOLEAN :
        Do(ImageOp(Cur, img, invert), "Image", <<img, invert>>)

QRCode == MayCall /\ \E d \in QRInputs : Do(QRCodeOp(Cur, d), "QRCode", <<d>>)

BarcodeWidth == MayCall /\ \E b \in ByteInputs : Do(BarcodeWidthOp(Cur, b), "BarcodeWidth", <<b>>)

BarcodeHeight ==
    MayCall /\ \E b \in ByteInputs : Do(BarcodeHeightOp(Cur, b), "BarcodeHeight", <<b>>)

HRIFont == MayCall /\ \E b \in ByteInputs : Do(HRIFontOp(Cur, b), "HRIFont", <<b>>)

HRIPosition == MayCall /\ \E b \in ByteInputs : Do(HRIPositionOp(Cur, b), "HRIPosition", <<b>>)

QRCodeSize == MayCall /\ \E b \in ByteInputs : Do(QRCodeSizeOp(Cur, b), "QRCodeSize", <<b>>)

QRCodeCorrectionLevel ==
    MayCall /\ \E b \in ByteInputs :
        Do(QRCodeCorrectionLevelOp(Cur, b), "QRCodeCorrectionLevel", <<b>>)

Bold == MayCall /\ \E b \in BOOLEAN : Do(BoldOp(Cur, b), "Bold", <<b>>)

InitCall == MayCall /\ Do(InitOp(Cur), "Init", <<>>)

PrintCall == MayCall /\ Do(PrintOp(Cur), "Print", <<>>)

Sizing == MayCall /\ \E sz \in SizingInputs : Do(SizingOp(Cur, sz[1], sz[2]), "Sizing", sz)

SetGrayLevel == MayCall /\ \E l \in GrayLevels : Do(SetGrayLevelOp(Cur, l), "SetGrayLevel", <<l>>)

ResetGrayLevel == MayCall /\ Do(ResetGrayLevelOp(Cur), "ResetGrayLevel", <<>>)

PageImage ==
    MayCall /\ \E img \in PageImages, invert \in BOOLEAN :
        Do(ImageOp(Cur, img, invert), "Image", <<img, invert>>)

PixelImage ==
    MayCall /\ \E img \in PixelImages, invert \in BOOLEAN :
        Do(ImageOp(Cur, img, invert), "Image", <<img, invert>>)

(***************************************************************************)
(* A rasterize call (ImageToBit, ImageToBin or ImageToBytes) in a          *)
(* goroutine of its own, step by step: the atomic load of the gray level   *)
(* into the local lvl, then one call of gray for each pixel, row by row.   *)
(* SetGrayLevel and ResetGrayLevel, one atomic store each, run between     *)
(* its steps.                                                              *)
(***************************************************************************)
\* Images of two pixels of one alpha and luminance.
RasterImages ==
    {[X |-> 2, Y |-> 1, pat |-> "pixel", A |-> 255, L |-> 100],
     [X |-> 1, Y |-> 2, pat |-> "pixel", A |-> 100, L |-> 99]}

\* The level with the gray level read again for each pixel.
pixelLevelReload(r, g) == g % 256

\* The level pixel by pixel: the local lvl, whatever the gray level g is by now.
pixelLevel(r, g) == r.lvl

RasterVars ==
    <<dialect, imageFunc, cpl, ppl, barcodeFunc, barcodeWidth, barcodeHeight,
      hriPosition, tabPositions, width, height, x, y, tab, row, font, bold,
      sizeX, sizeY, align, underling, grayLevel, sink, barcodeCalls, status, calls,
      last, qrcodeFunc, qrcodeSize, qrcodeCorrectionLevel, writer, failed, stores>>

\* The call: sz := img.Bounds().Size() and the buffer.
RasterCall ==
    /\ raster.pc \in {"idle", "done"}
    /\ \E kind \in {"ImageToBit", "ImageToBin", "ImageToBytes"}, img \in RasterImages,
          invert \in BOOLEAN :
          raster' = [pc |-> "load", kind |-> kind, img |-> img, invert |-> invert,
                     lvl |-> 0, loads |-> 0, fg |-> <<>>]
    /\ UNCHANGED RasterVars

\* lvl := uint8(grayLevel.Load())
RasterLoad ==
    /\ raster.pc = "load"
    /\ raster' = [raster EXCEPT !.pc = "loop", !.lvl = grayLevel % 256, !.loads = @ + 1]
    /\ UNCHANGED RasterVars

\* One turn of the inner loop: gray(img.At(x, y), lvl, invert) for the next pixel.
RasterPixel ==
    /\ raster.pc = "loop"
    /\ Len(raster.fg) < raster.img.X * raster.img.Y
    /\ raster' = [raster EXCEPT !.fg =
                    Append(@, gray(At(raster.img, Len(@) % raster.img.X, Len(@) \div raster.img.X),
                                   pixelLevel(raster, grayLevel), raster.invert))]
    /\ UNCHANGED RasterVars

\* The loops are over: return.
RasterReturn ==
    /\ raster.pc = "loop"
    /\ Len(raster.fg) = raster.img.X * raster.img.Y
    /\ raster' = [raster EXCEPT !.pc = "done"]
    /\ UNCHANGED RasterVars

(***************************************************************************)
(* Specifications.                                                         *)
(***************************************************************************)
\* The layout engine: text, tabs, character size, alignment, line flushes.
NextLayout == Text \/ Tab \/ TabPositions \/ CharSize \/ LineFeedCall \/ Align
InitLayoutSpec ==
    NewPostscript /\ ~barcodeFunc /\ ~qrcodeFunc /\ writer = ReliableWriter
SpecLayout == InitLayoutSpec /\ [][NextLayout]_vars

\* The escape and star encoders.
InitEsc == (NewEscape \/ NewStar) /\ writer = ReliableWriter
NextEsc ==
    \/ LeftMargin \/ WidthArea \/ AbsolutePosition \/ Align \/ Underling \/ CharSize
    \/ TabPositions \/ Cut \/ FullCut \/ OpenCashDrawer \/ Barcode \/ Image
    \/ QRCode \/ BarcodeWidth \/ BarcodeHeight \/ HRIFont \/ HRIPosition
    \/ QRCodeSize \/ QRCodeCorrectionLevel
SpecEsc == InitEsc /\ [][NextEsc]_vars

\* Images and barcodes in every dialect.
Init == (NewEscape \/ NewStar \/ NewPostscript) /\ ~qrcodeFunc /\ writer = ReliableWriter
Next == Image \/ Barcode \/ Text \/ LineFeedCall
Spec == Init /\ [][Next]_vars

\* The postscript encoder on the page of height 30: images and text.
InitImage == InitLayoutSpec /\ height = 30000
NextImage == PageImage \/ Text \/ LineFeedCall
SpecImage == InitImage /\ [][NextImage]_vars

\* Every dialect on every writer: none, a reliable one, one that fails.
InitSink ==
    /\ NewEscape \/ NewStar \/ NewPostscript
    /\ ~barcodeFunc /\ ~qrcodeFunc /\ imageFunc \in {"none", "imageV2"}
NextSink == Text \/ Tab \/ LineFeedCall \/ PrintCall \/ InitCall \/ QRCode \/ Cut
SpecSink == InitSink /\ [][NextSink]_vars

\* The gray level and images of one pixel in the postscript encoder.
InitGray == InitLayoutSpec /\ cpl = MaxCpl /\ height = defaultHeight
NextGray == SetGrayLevel \/ ResetGrayLevel \/ PixelImage
SpecGray == InitGray /\ [][NextGray]_vars

\* A rasterize call and the gray level setters, interleaved.
NextRaster ==
    \/ SetGrayLevel \/ ResetGrayLevel
    \/ RasterCall \/ RasterLoad \/ RasterPixel \/ RasterReturn
SpecRaster == InitGray /\ [][NextRaster]_vars

\* Text and its attributes, line flushes and pages in every dialect.
InitPage == (NewEscape \/ NewStar \/ NewPostscript)
                /\ ~barcodeFunc /\ ~qrcodeFunc /\ writer = ReliableWriter
NextPage ==
    \/ Text \/ Tab \/ CharSize \/ Bold \/ Underling \/ Align \/ LineFeedCall
    \/ PrintCall \/ InitCall \/ Sizing
SpecPage == InitPage /\ [][NextPage]_vars

(***************************************************************************)
(* What one call wrote, and what the properties below read from it.        *)
(***************************************************************************)
\* The records the step appended to the sink.
NewWrites == SubSeq(sink', Len(sink) + 1, Len(sink'))

\* The records of kind op among ws, in order.
Ops(ws, op) == SelectSeq(ws, LAMBDA e : e.op = op)

\* A chunk as it appears between the parentheses of a show.
PieceData(p) ==
    ReplaceAll(ReplaceAll(p, BACKSLASH, <<BACKSLASH, BACKSLASH>>), EURO, showEuro)

\* The last call was Text on an empty row with no pending tab, the page
\* admitting at least one character per line, of a non-empty encoded string.
TextOnEmptyRow ==
    /\ dialect = "postscript"
    /\ last'.op = "Text"
    /\ row.pieces = <<>> /\ row.width = 0 /\ tab = 0
    /\ width >= sizeX * charWidth
    /\ Len(Encode(last'.args[2], last'.args[1])) >= 1

\* Where a row of width w starts under alignment a.
RowStart(a, w) ==
    CASE a = Center -> (width - w) \div 2
      [] a = Right  -> width - w
      [] OTHER      -> 0

\* The height of a line of text at vertical scale h.
LineHeight(h) == IF h > 1 THEN (lineFeed * 79 * h) \div 100 ELSE lineFeed

\* Flushing rows of heights hs from cursor yv on a page of height H: the
\* cursor afterwards and the number of page breaks.
RECURSIVE Paginate(_, _, _)
Paginate(yv, H, hs) ==
    IF hs = <<>> THEN [y |-> yv, breaks |-> 0]
    ELSE LET h  == Head(hs)
             b  == yv - h < lineFeed
             r  == Paginate(IF b THEN H - h ELSE yv - h, H, Tail(hs))
         IN  [y |-> r.y, breaks |-> r.breaks + (IF b THEN 1 ELSE 0)]

\* A value of bs is kept iff it is greater than every value before it and
\* than zero, which is the last kept value.
KeptStops(bs) ==
    LET keep(i) == \A j \in 0..(i - 1) : bs[i] > (IF j = 0 THEN 0 ELSE bs[j])
        ix == {i \in 1..Len(bs) : keep(i)}
        RECURSIVE pick(_)
        pick(i) == IF i > Len(bs) THEN <<>>
                   ELSE (IF i \in ix THEN <<bs[i]>> ELSE <<>>) \o pick(i + 1)
    IN  pick(1)

FirstN(bs, n) == IF Len(bs) > n THEN SubSeq(bs, 1, n) ELSE bs

MaxStops == IF dialect = "escape" THEN 32 ELSE 16

(***************************************************************************)
(* C1.  In the postscript dialect, Text on an empty row with no pending    *)
(* tab, a page admitting N >= 1 characters per line at the current scale   *)
(* and an encoded string of length L >= 1, makes ceil(L/N) pieces of       *)
(* lengths N, ..., N and a remainder in 1..N: every piece but the last is  *)
(* flushed on a line of its own, in order, the last one is queued, and the *)
(* pieces are the consecutive chunks of the encoded string.                *)
(***************************************************************************)
C1_TextWraps ==
    [][TextOnEmptyRow =>
        LET e == Encode(last'.args[2], last'.args[1])
            L == Len(e)
            N == width \div (sizeX * charWidth)
            k == (L + N - 1) \div N
            chunk(i) == SubSeq(e, (i - 1) * N + 1, IF i * N < L THEN i * N ELSE L)
            shown == Ops(NewWrites, "show")
            moves == Ops(NewWrites, "moveto")
        IN  /\ status' = "ok"
            /\ Len(shown) = k - 1
            /\ Len(moves) = k - 1
            /\ \A i \in 1..(k - 1) :
                /\ Len(chunk(i)) = N
                /\ shown[i].data = PieceData(chunk(i))
                /\ moves[i].x = RowStart(align, N * sizeX * charWidth)
            /\ \A i \in 1..(k - 2) :
                \/ moves[i + 1].y.v < moves[i].y.v
                \/ Ops(NewWrites, "showpage") # <<>>
            /\ Len(row'.pieces) = 1
            /\ Len(chunk(k)) \in 1..N
            /\ row'.pieces[1].data = PieceData(chunk(k))
            /\ row'.pieces[1].w = Len(chunk(k)) * sizeX * charWidth
            /\ row'.width = row'.pieces[1].w
    ]_vars

\* Text of 2N + 1 = 5 characters on the two-column page: two lines shown,
\* one character queued.
C1_Witness ==
    /\ dialect = "postscript" /\ cpl = 2 /\ calls = 1
    /\ last = [op |-> "Text", args |-> <<Str(5), "nil">>]
    /\ Len(Ops(sink, "show")) = 2
    /\ Len(row.pieces) = 1
    /\ row.pieces[1].data = <<99>>
    /\ row.width = charWidth

(***************************************************************************)
(* C2.  In the postscript dialect, whatever Text, Tab, TabPositions,       *)
(* CharSize and LineFeed calls were made, the row width plus the pending   *)
(* tab offset never exceeds the page width.                                *)
(***************************************************************************)
C2_TabNeverOverflows ==
    (dialect = "postscript" /\ status = "ok") => row.width + tab <= width

(***************************************************************************)
(* C3.  In the postscript dialect, a line flush starts the row where the   *)
(* alignment recorded in the row when its text was added puts it: 0 for    *)
(* left, (width - row width) / 2 for center, width - row width for right.  *)
(***************************************************************************)
C3_RowAlignmentRecorded ==
    [][(dialect = "postscript" /\ last'.op = "LineFeed" /\ row.pieces # <<>>)
        => /\ Ops(NewWrites, "moveto") # <<>>
           /\ Ops(NewWrites, "moveto")[1].x
                = RowStart(row.align, row.width) + row.pieces[1].tab
    ]_vars

(***************************************************************************)
(* C4.  In every dialect, Image of an image of zero width or zero height   *)
(* writes nothing and leaves the state of the encoder, the vertical cursor *)
(* included, unchanged.                                                    *)
(***************************************************************************)
C4_EmptyImageIsNoOp ==
    [][(last'.op = "Image" /\ (last'.args[1].X = 0 \/ last'.args[1].Y = 0))
        => /\ sink' = sink
           /\ y' = y /\ x' = x /\ row' = row /\ tab' = tab /\ font' = font
           /\ status' = status
    ]_vars

(***************************************************************************)
(* C5.  FullCut writes what Cut(2, 10) writes in the escape dialect and    *)
(* what Cut(2, 0) writes in the star dialect: a full cut, never a partial  *)
(* one.                                                                    *)
(***************************************************************************)
C5_FullCutIsFull ==
    [][(last'.op = "FullCut")
        => sink' = CutOp(Cur, 2, IF dialect = "escape" THEN 10 ELSE 0).sink
    ]_vars

C7_MarginsClamp ==
    [][(last'.op \in {"LeftMargin", "WidthArea", "AbsolutePosition"})
        => LET n == last'.args[1]
               limit == IF dialect = "star" /\ last'.op # "AbsolutePosition"
                        THEN cpl ELSE ppl
               clamped == IF n > limit THEN limit ELSE n
           IN  /\ Len(sink') = Len(sink) + 1
               /\ sink' = (CASE last'.op = "LeftMargin" -> LeftMarginOp(Cur, clamped)
                             [] last'.op = "WidthArea" -> WidthAreaOp(Cur, clamped)
                             [] OTHER -> AbsolutePositionOp(Cur, clamped)).sink
    ]_vars

(***************************************************************************)
(* C7, amended.  LeftMargin, WidthArea and AbsolutePosition write nothing  *)
(* when n is out of range and write n unchanged otherwise: the escape      *)
(* dialect writes LeftMargin and AbsolutePosition for n < PPL and          *)
(* WidthArea for n <= PPL, the star dialect LeftMargin for n < CPL,        *)
(* WidthArea for n <= CPL and AbsolutePosition for n < PPL.  Align,        *)
(* Underling, CharSize and Cut always write, with the parameter clamped:   *)
(* Align to 2, Underling to 2 (to 1 in the star dialect), each size to 5,  *)
(* the cut mode to 3.                                                      *)
(***************************************************************************)
C7_MarginsDropOthersClamp ==
    [][LET a == last'.args
           lo(n) == n % 256
           hi(n) == (n \div 256) % 256
           min(v, b) == IF v < b THEN v ELSE b
           esc == dialect = "escape"
           wrote(rec) == sink' = Append(sink, rec)
       IN  CASE last'.op = "LeftMargin" ->
                 IF a[1] < (IF esc THEN ppl ELSE cpl)
                 THEN wrote(IF esc THEN <<29, 76, lo(a[1]), hi(a[1])>>
                            ELSE <<27, 108, lo(a[1])>>)
                 ELSE sink' = sink
             [] last'.op = "WidthArea" ->
                 IF a[1] <= (IF esc THEN ppl ELSE cpl)
                 THEN wrote(IF esc THEN <<29, 87, lo(a[1]), hi(a[1])>>
                            ELSE <<27, 81, lo(a[1])>>)
                 ELSE sink' = sink
             [] last'.op = "AbsolutePosition" ->
                 IF a[1] < ppl
                 THEN wrote(IF esc THEN <<27, 36, lo(a[1]), hi(a[1])>>
                            ELSE <<27, 29, 65, lo(a[1]), hi(a[1])>>)
                 ELSE sink' = sink
             [] last'.op = "Align" ->
                 wrote(IF esc THEN <<27, 97, min(a[1], 2)>>
                       ELSE <<27, 29, 97, min(a[1], 2)>>)
             [] last'.op = "Underling" ->
                 wrote(<<27, 45, min(a[1], IF esc THEN 2 ELSE 1)>>)
             [] last'.op = "CharSize" ->
                 wrote(IF esc THEN <<29, 33, min(a[1], 5) * 16 + min(a[2], 5)>>
                       ELSE <<27, 105, min(a[2], 5), min(a[1], 5)>>)
             [] last'.op = "Cut" ->
                 wrote(IF ~esc THEN <<27, 100, min(a[1], 3)>>
                       ELSE IF min(a[1], 3) < 2 THEN <<29, 86, min(a[1], 3)>>
                       ELSE <<29, 86, min(a[1], 3) + 63, a[2]>>)
             [] OTHER -> TRUE
    ]_vars

\* LeftMargin(PPL) in the escape dialect: called, and nothing written.
C7_Witness ==
    /\ dialect = "escape"
    /\ last = [op |-> "LeftMargin", args |-> <<ppl>>]
    /\ calls = 1
    /\ sink = <<>>

(***************************************************************************)
(* C8.  In every dialect Barcode with a mode above 13 does what Barcode    *)
(* with mode 4 (Code39) does for the same data: it writes the same and,    *)
(* where a barcode generator is injected, hands it the mode 4.             *)
(***************************************************************************)
C8_UnknownModeIsCode39 ==
    [][(last'.op = "Barcode" /\ last'.args[1] > 13)
        => LET as39 == BarcodeOp(Cur, Code39, last'.args[2])
           IN  /\ sink' = as39.sink
               /\ barcodeCalls' = as39.barcodeCalls
               /\ \A i \in (Len(barcodeCalls) + 1)..Len(barcodeCalls') :
                      barcodeCalls'[i].Mode = Code39
    ]_vars

(***************************************************************************)
(* C9, as stated.  TabPositions of a non-empty list writes ESC 'D', the    *)
(* stops and one NUL, the stops being the strictly increasing filter of    *)
(* the whole input, cut to its first 32 (escape) or 16 (star) entries.     *)
(***************************************************************************)
C9_FilterThenTruncate ==
    [][(last'.op = "TabPositions" /\ last'.args # <<>>)
        => sink' = Append(sink, <<27, 68>> \o FirstN(KeptStops(last'.args), MaxStops)
                                  \o <<0>>)
    ]_vars

(***************************************************************************)
(* C9, amended.  TabPositions of a non-empty list writes ESC 'D', the      *)
(* stops and one NUL, the stops being the strictly increasing filter (a    *)
(* value is kept iff it is greater than the last kept value) of the first  *)
(* 32 (escape) or 16 (star) values of the input; an empty list writes      *)
(* nothing.                                                                *)
(***************************************************************************)
C9_TruncateThenFilter ==
    [][(last'.op = "TabPositions")
        => IF last'.args = <<>> THEN sink' = sink
           ELSE sink' = Append(sink, <<27, 68>> \o KeptStops(FirstN(last'.args, MaxStops))
                                     \o <<0>>)
    ]_vars

\* The escape encoder given 33 values, the first one twice: the 33rd is
\* cut before the filter and 31 stops are written.
C9_Witness ==
    /\ dialect = "escape"
    /\ last = [op |-> "TabPositions", args |-> Stops(33)]
    /\ sink # <<>>
    /\ sink[Len(sink)] = <<27, 68>> \o [i \in 1..31 |-> i] \o <<0>>

(***************************************************************************)
(* C10.  In the postscript dialect a line flush of a row of height h       *)
(* breaks the page exactly when the cursor minus h is below one line feed; *)
(* the flush then writes one showpage followed by one page header, and the *)
(* cursor after it is the page height minus h.  Text that wraps over       *)
(* several lines breaks the page once for each flush that finds the cursor *)
(* that low, and not otherwise.                                            *)
(***************************************************************************)
C10_PageBreak ==
    [][/\ (dialect = "postscript" /\ last'.op = "LineFeed")
          => LET h == row.height
                 brk == y.v - h < lineFeed
                 nw == NewWrites
             IN  /\ ~y.nan
                 /\ Len(Ops(nw, "showpage")) = (IF brk THEN 1 ELSE 0)
                 /\ Len(Ops(nw, "header")) = (IF brk THEN 1 ELSE 0)
                 /\ brk => (nw[1].op = "showpage" /\ nw[2].op = "header")
                 /\ y' = Num(IF brk THEN height - h ELSE y.v - h)
       /\ TextOnEmptyRow
          => LET L == Len(Encode(last'.args[2], last'.args[1]))
                 N == width \div (sizeX * charWidth)
                 k == (L + N - 1) \div N
                 lh == LineHeight(sizeY)
                 first == IF lh > row.height THEN lh ELSE row.height
                 hs == [i \in 1..(k - 1) |-> IF i = 1 THEN first ELSE lh]
                 p == Paginate(y.v, height, hs)
                 nw == NewWrites
             IN  /\ Len(Ops(nw, "showpage")) = p.breaks
                 /\ Len(Ops(nw, "header")) = p.breaks
                 /\ \A i \in 1..Len(nw) :
                        nw[i].op = "showpage" => nw[i + 1].op = "header"
                 /\ y' = Num(p.y)
    ]_vars

\* Text of three lines on the page of height 30: the second flush finds the
\* cursor at 8.4, breaks the page once and leaves the cursor at 30 - 10.8.
C10_Witness ==
    /\ dialect = "postscript" /\ height = 30000
    /\ last.op = "Text"
    /\ Len(Ops(sink, "showpage")) = 1
    /\ Len(Ops(sink, "header")) = 1
    /\ y = Num(height - lineFeed)

(***************************************************************************)
(* C11.  With a barcode (QR code) generator set on an escape or star       *)
(* encoder, Barcode (QRCode) of non-empty data writes what Image of the    *)
(* generated image, not inverted, writes, and no native barcode (QR store  *)
(* or print) command; the escape encoder's BarcodeWidth, BarcodeHeight,    *)
(* HRIFont and HRIPosition then write nothing, and so do its QRCodeSize    *)
(* and QRCodeCorrectionLevel with a QR code generator set.                 *)
(***************************************************************************)
C11_GeneratorReplacesNative ==
    [][LET a == last'.args
           nw == NewWrites
           starts(rec, pre) == Len(rec) >= Len(pre) /\ SubSeq(rec, 1, Len(pre)) = pre
           asImage(img) == ImageOp(Cur, img, FALSE)
       IN  /\ (last'.op = "Barcode" /\ barcodeFunc /\ a[2] # <<>>)
              => LET opts == [Mode |-> IF a[1] > 13 THEN 4 ELSE a[1],
                              Width |-> barcodeWidth, Height |-> barcodeHeight]
                     ref == asImage(barcodeImage(a[2], opts))
                 IN  /\ sink' = ref.sink /\ status' = ref.status
                     /\ \A i \in 1..Len(nw) :
                            ~starts(nw[i], IF dialect = "escape" THEN <<29, 107>> ELSE <<27, 98>>)
                     /\ \A i \in 1..Len(nw) : nw[i] # a[2]
           /\ (last'.op = "QRCode" /\ qrcodeFunc /\ a[1] # <<>>)
              => LET opts == [CorrectionLevel |-> qrcodeCorrectionLevel, Size |-> qrcodeSize]
                     ref == asImage(qrcodeImage(a[1], opts))
                 IN  /\ sink' = ref.sink /\ status' = ref.status
                     /\ \A i \in 1..Len(nw) :
                            ~starts(nw[i], IF dialect = "escape" THEN <<29, 40, 107>>
                                           ELSE <<27, 29, 121>>)
                     /\ \A i \in 1..Len(nw) : nw[i] # a[1]
           /\ (/\ dialect = "escape" /\ barcodeFunc
               /\ last'.op \in {"BarcodeWidth", "BarcodeHeight", "HRIFont", "HRIPosition"})
              => sink' = sink
           /\ (/\ dialect = "escape" /\ qrcodeFunc
               /\ last'.op \in {"QRCodeSize", "QRCodeCorrectionLevel"})
              => sink' = sink
    ]_vars

\* The escape encoder with a generator after Barcode(Code39, "12"): the sink
\* holds an image transfer.
C11_Witness ==
    /\ dialect = "escape" /\ barcodeFunc
    /\ last = [op |-> "Barcode", args |-> <<Code39, <<49, 50>>>>]
    /\ sink # <<>>
    /\ sink[1][1] = GS /\ sink[1][2] \in {118, 56, 42}
    /\ barcodeCalls = <<[data |-> <<49, 50>>, Mode |-> Code39, Width |-> 2, Height |-> 2]>>

\* The step is Image, in the postscript dialect, of an image whose scaled
\* height (page width x pixel height / PPL) is above the page height.
ImageTooHigh ==
    /\ dialect = "postscript"
    /\ last'.op = "Image"
    /\ last'.args[1].X > 0
    /\ width * 125 * last'.args[1].Y > height * ppl

\* The variables an operation of the postscript encoder can change, as a record.
Layout(c) ==
    [tabPositions |-> c.tabPositions, width |-> c.width, height |-> c.height,
     x |-> c.x, y |-> c.y, tab |-> c.tab, row |-> c.row, font |-> c.font,
     bold |-> c.bold, sizeX |-> c.sizeX, sizeY |-> c.sizeY, align |-> c.align,
     underling |-> c.underling, sink |-> c.sink, status |-> c.status,
     cpl |-> c.cpl, ppl |-> c.ppl]

\* Cur in the next state.
CurNext ==
    [Cur EXCEPT !.tabPositions = tabPositions', !.width = width', !.height = height',
                !.x = x', !.y = y', !.tab = tab', !.row = row', !.font = font',
                !.bold = bold', !.sizeX = sizeX', !.sizeY = sizeY', !.align = align',
                !.underling = underling', !.sink = sink', !.status = status',
                !.cpl = cpl', !.ppl = ppl']

(***************************************************************************)
(* C12, as stated.  In the postscript dialect Image of an image too high   *)
(* for the page writes no image instruction, leaves the vertical cursor    *)
(* where it is and starts no page: the diagnostic is queued in the current *)
(* row, and the encoder is in the state Text of the diagnostic leaves.     *)
(***************************************************************************)
C12_DiagnosticQueuedInPlace ==
    [][ImageTooHigh
        => /\ Ops(NewWrites, "image") = <<>>
           /\ y' = y
           /\ Ops(NewWrites, "showpage") = <<>>
           /\ Len(row'.pieces) = Len(row.pieces) + 1
           /\ row'.pieces[Len(row'.pieces)].data = tooHigh
           /\ Layout(CurNext) = Layout(TextOp(Cur, tooHigh, "nil"))
    ]_vars

(***************************************************************************)
(* C12, amended.  In the postscript dialect Image of an image too high for *)
(* the page writes no image instruction and does exactly what Text of the  *)
(* diagnostic does: the diagnostic is wrapped like any text, so where it   *)
(* does not fit the rest of the row lines are flushed, the cursor moves    *)
(* down and pages may be started; only a diagnostic that fits is queued    *)
(* with the cursor unmoved.                                                *)
(***************************************************************************)
C12_DiagnosticIsText ==
    [][ImageTooHigh
        => LET fits == tab + row.width + Len(tooHigh) * sizeX * charWidth <= width
           IN  /\ Ops(NewWrites, "image") = <<>>
               /\ Layout(CurNext) = Layout(TextOp(Cur, tooHigh, "nil"))
               /\ fits => (sink' = sink /\ y' = y
                           /\ row'.pieces[Len(row'.pieces)].data = tooHigh)
               /\ (~fits /\ status' = "ok")
                    => /\ Ops(NewWrites, "show") # <<>>
                       /\ y.nan \/ y' # y \/ Ops(NewWrites, "showpage") # <<>>
    ]_vars

\* The tall image on the two-column page after one character: the
\* diagnostic went out on 31 lines and two more pages.
C12_Witness ==
    /\ dialect = "postscript" /\ cpl = 2 /\ status = "ok"
    /\ last.op = "Image" /\ last.args[1].Y = TallImage
    /\ Ops(sink, "image") = <<>>
    /\ Len(Ops(sink, "show")) = 31
    /\ Ops(sink, "showpage") # <<>>

\* The sum over the pieces of tab offset + width.
RECURSIVE SumPieces(_)
SumPieces(ps) == IF ps = <<>> THEN 0 ELSE Head(ps).tab + Head(ps).w + SumPieces(Tail(ps))

\* The greatest line height among the pieces.
MaxLineHeight(ps) ==
    CHOOSE h \in {LineHeight(ps[i].sizeY) : i \in 1..Len(ps)} :
        \A i \in 1..Len(ps) : LineHeight(ps[i].sizeY) <= h

(***************************************************************************)
(* C13.  In every state of the postscript encoder the row width is the sum *)
(* over the queued pieces of tab offset + width, and the height of a       *)
(* non-empty row is the greatest of the line heights of its pieces (one    *)
(* line feed for a Y scale of 1, 0.79 x scale line feeds above); after a   *)
(* LineFeed the row has no pieces and width 0.                             *)
(***************************************************************************)
C13_RowInvariant ==
    /\ [](dialect = "postscript"
            => /\ row.width = SumPieces(row.pieces)
               /\ row.pieces # <<>> => row.height = MaxLineHeight(row.pieces))
    /\ [][(dialect = "postscript" /\ last'.op = "LineFeed")
            => (row'.pieces = <<>> /\ row'.width = 0)]_vars

\* Two pieces of different scales in one row: the row is as high as the
\* higher one.
C13_Witness ==
    /\ dialect = "postscript" /\ status = "ok"
    /\ Len(row.pieces) = 2
    /\ row.pieces[1].sizeY = 1 /\ row.pieces[2].sizeY = 2
    /\ row.height = LineHeight(2)
    /\ row.width = row.pieces[1].w + row.pieces[2].w

\* The font descriptor of a piece and of a font-selection instruction.
PieceFont(p) == <<IF p.bold THEN styleBold ELSE styleRegular, p.sizeX, p.sizeY>>

SelectedFont(e) == <<e.style, e.sizeX, e.sizeY>>

\* The index of the last instruction of q that is one of ops, 0 if none is.
LastOf(q, ops) ==
    LET I == {i \in 1..Len(q) : q[i].op \in ops}
    IN  IF I = {} THEN 0 ELSE CHOOSE i \in I : \A j \in I : j <= i

\* After the instructions q no font is selected on the page: none ever was,
\* or a page-show or a page header (Init, or the page-show's) came later.
NoFontOnPage(q) ==
    \/ LastOf(q, {"setfont"}) = 0
    \/ LastOf(q, {"showpage", "header"}) > LastOf(q, {"setfont"})

\* The piece the j-th show of a call is for: the pieces queued before the
\* call come first, the pieces the call makes follow, with the attributes
\* of the call.
ShownPieceFont(j) ==
    IF j <= Len(row.pieces) THEN PieceFont(row.pieces[j])
    ELSE <<IF bold THEN styleBold ELSE styleRegular, sizeX, sizeY>>

(***************************************************************************)
(* C14.  In the postscript encoder a font selection is written right       *)
(* before the instructions of a piece exactly when the piece's (bold, X    *)
(* scale, Y scale) differs from the font selected last or no font is       *)
(* selected on the page (a page-show or Init came after the last           *)
(* selection, or there was none); so consecutive identical pieces of a     *)
(* page share one selection, and every show is written under a selection   *)
(* of its own page that matches its piece.                                 *)
(***************************************************************************)
C14_FontSelection ==
    [][dialect = "postscript"
         => \A k \in (Len(sink) + 1)..Len(sink') :
                sink'[k].op = "show"
                    => LET j  == Len(Ops(SubSeq(sink', Len(sink) + 1, k), "show"))
                           D  == ShownPieceFont(j)
                           Q  == SubSeq(sink', 1, k - 2)
                           em == Q # <<>> /\ Q[Len(Q)].op = "setfont"
                           Q0 == IF em THEN SubSeq(Q, 1, Len(Q) - 1) ELSE Q
                       IN  /\ sink'[k - 1].op = "moveto"
                           /\ em <=> (\/ NoFontOnPage(Q0)
                                      \/ SelectedFont(Q0[LastOf(Q0, {"setfont"})]) # D)
                           /\ ~NoFontOnPage(Q)
                           /\ SelectedFont(Q[LastOf(Q, {"setfont"})]) = D]_vars

\* A row of a regular piece and a bold one, then a page break: the bold font
\* is selected after the regular one on the first page and again on the
\* second.
C14_Witness ==
    /\ dialect = "postscript" /\ status = "ok"
    /\ \E i, j, k \in 1..Len(sink) :
          /\ i < j /\ j < k
          /\ sink[i].op = "setfont" /\ sink[i].style = styleRegular
          /\ sink[j].op = "setfont" /\ sink[j].style = styleBold
          /\ Ops(SubSeq(sink, i, j), "showpage") = <<>>
          /\ sink[k].op = "setfont" /\ sink[k].style = styleBold
          /\ Ops(SubSeq(sink, j, k), "showpage") # <<>>
          /\ Ops(SubSeq(sink, j, k), "setfont") = <<sink[j], sink[k]>>

(***************************************************************************)
(* C15.  As stated: no operation of the postscript encoder, Sizing         *)
(* included, changes the page width.                                       *)
(***************************************************************************)
C15_WidthFixed == [][dialect = "postscript" => width' = width]_vars

(***************************************************************************)
(* C15, as the code has it.  The page width is cpl x charWidth + 1 pt at   *)
(* construction; Sizing with a cpl other than 0 sets it to cpl x charWidth *)
(* (no extra point), and a Text that follows on an empty row wraps at it;   *)
(* no other operation changes the page width.                              *)
(***************************************************************************)
C15_WidthSetBySizing ==
    /\ [](dialect = "postscript" /\ calls = 0 => width = cpl * charWidth + 8)
    /\ [][dialect = "postscript"
            => /\ IF last'.op = "Sizing" /\ last'.args[1] # 0
                  THEN width' = last'.args[1] * charWidth /\ cpl' = last'.args[1]
                  ELSE width' = width
               /\ (/\ last.op = "Sizing" /\ last'.op = "Text" /\ status' = "ok"
                   /\ row.pieces = <<>> /\ tab = 0)
                      => \A i \in 1..Len(row'.pieces) :
                             row'.pieces[i].tab + row'.pieces[i].w <= width]_vars

\* Sizing(4, 152) on a page built for other widths: the page is 4 characters
\* wide, without the extra point.
C15_Witness ==
    /\ dialect = "postscript" /\ status = "ok"
    /\ last.op = "Sizing" /\ last.args[1] = 4
    /\ width = 4 * charWidth /\ cpl = 4

(***************************************************************************)
(* C17.  Print of the postscript encoder is a line flush and a page-show:  *)
(* the pieces queued before it are shown, in their order, before the       *)
(* showpage that is the last instruction Print writes; after it the row    *)
(* is empty and the cursor is at the page height.                          *)
(***************************************************************************)
C17_PrintFlushesThenShowsPage ==
    [][(dialect = "postscript" /\ last'.op = "Print")
         => /\ status' = "ok"
            /\ NewWrites # <<>>
            /\ NewWrites[Len(NewWrites)] = [op |-> "showpage"]
            /\ LET shows == Ops(SubSeq(NewWrites, 1, Len(NewWrites) - 1), "show")
               IN  /\ Len(shows) = Len(row.pieces)
                   /\ \A i \in 1..Len(shows) : shows[i].data = row.pieces[i].data
            /\ row'.pieces = <<>> /\ row'.width = 0
            /\ y' = Num(height)]_vars

\* Print with two pieces queued: both are shown and one page is shown.
C17_Witness ==
    /\ dialect = "postscript" /\ status = "ok"
    /\ last.op = "Print"
    /\ Len(Ops(sink, "show")) = 2
    /\ Ops(sink, "showpage") = <<sink[Len(sink)]>>
    /\ row.pieces = <<>> /\ y = Num(height)

\* The encoded content of the Text of this step fits in what is left of the
\* row: as many characters of the current width as it has bytes.
TextFits ==
    LET s == Encode(last'.args[2], last'.args[1])
    IN  tab + row.width + Len(s) * sizeX * charWidth <= width

\* The Tab of this step forces a flush: the first tab stop beyond the row
\* width is farther from it than the page is wide.
TabForcesFlush ==
    LET I == {i \in 1..Len(tabPositions) : row.width < tabPositions[i]}
    IN  /\ I # {}
        /\ tabPositions[CHOOSE i \in I : \A j \in I : i <= j] - row.width > width

(***************************************************************************)
(* C18.  In the postscript encoder Align, Bold, Underling, CharSize, a Tab *)
(* that forces no flush and a Text that fits in what is left of the row    *)
(* write nothing; text is shown only by LineFeed, by Print, by a Text that *)
(* wraps and by a Tab that forces a flush.  In the escape and star         *)
(* encoders every one of these operations writes its bytes in the call     *)
(* and leaves nothing queued.                                              *)
(***************************************************************************)
C18_DeferredOrImmediate ==
    [][/\ dialect = "postscript"
          => /\ last'.op \in {"Align", "Bold", "Underling", "CharSize"} => sink' = sink
             /\ (last'.op = "Tab" /\ ~TabForcesFlush) => sink' = sink
             /\ (last'.op = "Text" /\ TextFits) => sink' = sink
             /\ Ops(NewWrites, "show") # <<>>
                    => \/ last'.op \in {"LineFeed", "Print"}
                       \/ last'.op = "Text" /\ ~TextFits
                       \/ last'.op = "Tab" /\ TabForcesFlush
       /\ dialect \in {"escape", "star"}
          => /\ <<row, tab, x, y, font>>' = <<row, tab, x, y, font>>
             /\ last'.op \in {"Align", "Bold", "Underling", "CharSize", "Tab",
                              "Text", "LineFeed", "Init"}
                    => Len(sink') = Len(sink) + 1
             /\ last'.op = "Text"
                    => sink'[Len(sink')] = Encode(last'.args[2], last'.args[1])]_vars

\* Two pieces queued by two Texts with a Bold between them, and nothing
\* written yet.
C18_Witness ==
    /\ dialect = "postscript" /\ status = "ok"
    /\ last.op = "Text"
    /\ Len(row.pieces) = 2 /\ row.pieces[2].bold /\ ~row.pieces[1].bold
    /\ sink = <<>>

\* The tab stops beyond the position pos, and the first of them.
StopsBeyond(pos) == {i \in 1..Len(tabPositions) : pos < tabPositions[i]}

NextStop(pos) == tabPositions[CHOOSE i \in StopsBeyond(pos) : \A j \in StopsBeyond(pos) : i <= j]

(***************************************************************************)
(* C19.  A Tab of the postscript encoder that follows a Tab (no text       *)
(* between them) moves the pending print position, row width + tab         *)
(* offset, to the next tab stop beyond it, where that stop is on the       *)
(* page: two Tabs leave it at the second stop beyond the row width.        *)
(***************************************************************************)
C19_TabAdvancesFromPosition ==
    [][(/\ dialect = "postscript"
        /\ last.op = "Tab" /\ last'.op = "Tab"
        /\ tab > 0 /\ row.width + tab = NextStop(row.width)
        /\ StopsBeyond(row.width + tab) # {}
        /\ NextStop(row.width + tab) <= width)
         => row'.width + tab' = NextStop(row.width + tab)]_vars

\* The state the call of op with args a ends in, from state c.
CallOf(c, op, a) ==
    CASE op = "Text"     -> TextOp(c, a[1], a[2])
      [] op = "Tab"      -> TabOp(c)
      [] op = "LineFeed" -> LineFeedOp(c)
      [] op = "Print"    -> PrintOp(c)
      [] op = "Init"     -> InitOp(c)
      [] op = "QRCode"   -> QRCodeOp(c, a[1])
      [] op = "Cut"      -> CutOp(c, a[1], a[2])

\* What the call of this step does on a writer that takes every Write.
OnReliableWriter == CallOf([Cur EXCEPT !.writer = ReliableWriter], last'.op, last'.args)

\* The number of Writes the writer still takes.
RoomLeft ==
    IF ~writer.fails THEN Len(OnReliableWriter.sink)
    ELSE IF writer.room > Len(sink) THEN writer.room - Len(sink) ELSE 0

(***************************************************************************)
(* C16.  A call whose Writes the writer all takes ends as on a reliable    *)
(* writer.  A call that writes on an encoder with no writer panics and     *)
(* writes nothing.  A call with a Write the writer answers with an error   *)
(* panics at that Write: the Writes before it are in the sink, no later    *)
(* one is, and the writer was asked once (no retry).                       *)
(***************************************************************************)
C16_WriteFailureIsFatal ==
    [][LET ref == OnReliableWriter
           n   == Len(ref.sink) - Len(sink)
       IN  IF ~writer.set
           THEN IF n = 0
                THEN sink' = sink /\ status' = ref.status
                ELSE sink' = sink /\ status' = "panic" /\ failed' = failed
           ELSE IF n <= RoomLeft
                THEN sink' = ref.sink /\ status' = ref.status /\ failed' = failed
                ELSE /\ status' = "panic"
                     /\ sink' = SubSeq(ref.sink, 1, Len(sink) + RoomLeft)
                     /\ failed' = failed + 1]_vars

\* A postscript line flush on a writer that fails its third Write: the font
\* selection and the moveto are written, the show is not, the call panicked.
C16_Witness ==
    /\ dialect = "postscript" /\ status = "panic"
    /\ writer.set /\ writer.fails /\ writer.room = 2
    /\ last.op \in {"LineFeed", "Print"}
    /\ Len(sink) = 2 /\ sink[1].op = "setfont" /\ sink[2].op = "moveto"
    /\ failed = 1

\* The image instructions of this step.
NewImages == Ops(NewWrites, "image")

(***************************************************************************)
(* C20.  At gray level t a pixel whose alpha is below t is foreground      *)
(* exactly when invert is set; a pixel whose alpha is not below t (an      *)
(* opaque one above all) is foreground exactly when its luminance is below *)
(* t without invert and above t with invert.  The postscript encoder       *)
(* writes 00 for a foreground pixel and FF for a background one.           *)
(***************************************************************************)
C20_GrayThreshold ==
    [][(last'.op = "Image" /\ last'.args[1].pat = "pixel")
         => LET px  == last'.args[1]
                inv == last'.args[2]
                t   == grayLevel
                fg  == NewImages[1].data = <<0>>
            IN  /\ status' = "ok"
                /\ Len(NewImages) = 1
                /\ NewImages[1].data \in {<<0>>, <<255>>}
                /\ px.A < t => (fg <=> inv)
                /\ (px.A >= t /\ ~inv) => (fg <=> px.L < t)
                /\ (px.A >= t /\ inv) => (fg <=> px.L > t)]_vars

\* At level 100 an opaque pixel of luminance 99 is foreground without
\* invert.
C20_Witness ==
    /\ grayLevel = 100 /\ status = "ok"
    /\ last.op = "Image" /\ last.args[1].pat = "pixel"
    /\ last.args[1].A = 255 /\ last.args[1].L = 99 /\ ~last.args[2]
    /\ sink[Len(sink)].op = "image" /\ sink[Len(sink)].data = <<0>>

(***************************************************************************)
(* What a raster buffer holds, read back bit by bit.                       *)
(***************************************************************************)
\* Whether bit 0x80 >> k of the byte b is set.
BitSet(b, k) == (b \div (2 ^ (7 - k))) % 2 = 1

\* Whether pixel (px, py) of img is foreground at the current gray level.
Foreground(img, invert, px, py) == gray(At(img, px, py), grayLevel, invert)

\* The bytes for each row that the header of a raster transfer announces.
StrideOf(head) ==
    IF head[2] = 118 THEN head[5] + 256 * head[6]
    ELSE (head[14] + 256 * head[15]) \div 8

(***************************************************************************)
(* C21.  The row-major rasterizer (the escape encoder's GS v 0 and GS 8 L  *)
(* transfers send its result): for an image of w by h pixels the stride is *)
(* ceil(w/8), the buffer has exactly stride * h bytes, bit 0x80 >> (x % 8) *)
(* of byte y * stride + x / 8 is set exactly when pixel (x, y) is          *)
(* foreground, and the padding bits after the last pixel of a row are 0.   *)
(***************************************************************************)
C21_BitRaster ==
    [][(last'.op = "Image" /\ dialect = "escape" /\ imageFunc # "imageV2")
         => LET img    == last'.args[1]
                inv    == last'.args[2]
                stride == (img.X + 7) \div 8
            IN  /\ status' = "ok"
                /\ IF stride * img.Y = 0 THEN NewWrites = <<>>
                   ELSE /\ Len(NewWrites) >= 2
                        /\ StrideOf(NewWrites[1]) = stride
                        /\ Len(NewWrites[2]) = stride * img.Y
                        /\ \A py \in 0..(img.Y - 1), px \in 0..(8 * stride - 1) :
                             BitSet(NewWrites[2][py * stride + px \div 8 + 1], px % 8)
                                <=> (px < img.X /\ Foreground(img, inv, px, py))]_vars

\* A black row of nine pixels: two bytes, FF and 80, the seven padding bits 0.
C21_Witness ==
    /\ dialect = "escape" /\ imageFunc = "imageV1" /\ status = "ok"
    /\ last = [op |-> "Image", args |-> <<[X |-> 9, Y |-> 1, pat |-> "black"], FALSE>>]
    /\ Len(sink) = 3 /\ sink[2] = <<255, 128>>
    /\ sink[1][14] = 16 /\ sink[1][15] = 0

(***************************************************************************)
(* The banded transfer as it is written: each band is a header (two writes *)
(* in the star dialect), the payload and the feed.                         *)
(***************************************************************************)
BandWrites == IF dialect = "star" THEN 4 ELSE 3

\* The payload of band b (from 0) among the writes ws of one transfer.
Payload(ws, b) == ws[BandWrites * (b + 1) - 1]

\* The payloads of the transfer ws, one after the other.
Payloads(ws) == Flatten([b \in 1..(Len(ws) \div BandWrites) |-> Payload(ws, b - 1)])

\* Whether the step is a banded transfer of an image.
BandedImage ==
    /\ last'.op = "Image"
    /\ dialect = "star" \/ (dialect = "escape" /\ imageFunc = "imageV2")

(***************************************************************************)
(* C22.  The band rasterizer (the banded transfers send its result): for   *)
(* an image of w by h pixels the buffer has exactly ceil(h/24) * 3 * w     *)
(* bytes; pixel (x, y) is bit 0x80 >> (y % 8) of the byte at offset        *)
(* y/8 + (y/24) * 3 * (w - 1) + 3x, which lies inside the buffer; distinct *)
(* pixels have distinct (byte, bit) positions; the bytes of band b are     *)
(* [3wb, 3w(b+1)), three consecutive bytes for each column.                *)
(***************************************************************************)
C22_BandRaster ==
    [][BandedImage
         => LET img == last'.args[1]
                inv == last'.args[2]
                w   == img.X
                buf == Payloads(NewWrites)
                off(px, py) == py \div 8 + (py \div 24) * 3 * (w - 1) + 3 * px
                pixels == (0..(w - 1)) \X (0..(img.Y - 1))
            IN  /\ status' = "ok"
                /\ Len(buf) = ((img.Y + 23) \div 24) * 3 * w
                /\ \A p \in pixels :
                     LET b == p[2] \div 24 IN
                     /\ off(p[1], p[2]) \in 0..(Len(buf) - 1)
                     /\ off(p[1], p[2]) \in (3 * w * b)..(3 * w * (b + 1) - 1)
                     /\ off(p[1], p[2]) = 3 * w * b + 3 * p[1] + (p[2] % 24) \div 8
                     /\ BitSet(buf[off(p[1], p[2]) + 1], p[2] % 8)
                            <=> Foreground(img, inv, p[1], p[2])
                /\ \A p, q \in pixels :
                     (off(p[1], p[2]) = off(q[1], q[2]) /\ p[2] % 8 = q[2] % 8) => p = q]_vars

\* A black image of 2 by 25 pixels: the first band is full, the second holds
\* the top bit of the first byte of each column.
C22_Witness ==
    /\ dialect = "escape" /\ imageFunc = "imageV2" /\ status = "ok"
    /\ last = [op |-> "Image", args |-> <<[X |-> 2, Y |-> 25, pat |-> "black"], FALSE>>]
    /\ Len(sink) = 6
    /\ sink[2] = <<255, 255, 255, 255, 255, 255>>
    /\ sink[5] = <<128, 0, 0, 128, 0, 0>>

(***************************************************************************)
(* C23 as stated: a banded transfer of an image of w by h pixels sends     *)
(* exactly ceil(h/24) band records.                                        *)
(***************************************************************************)
C23_BandCount ==
    [][BandedImage
         => Len(NewWrites) = BandWrites * ((last'.args[1].Y + 23) \div 24)]_vars

(***************************************************************************)
(* C23.  A banded transfer of an image of w >= 1 by h pixels ends and      *)
(* sends exactly ceil(h/24) band records: a header with w as 16 bits, low  *)
(* byte first, then the 3 * w bytes of the band, then one feed; the        *)
(* payloads one after the other are the whole buffer.  For an image        *)
(* without columns the buffer is empty and nothing is sent.                *)
(***************************************************************************)
C23_BandedTransfer ==
    [][BandedImage
         => LET img == last'.args[1]
                w   == img.X
                n   == (img.Y + 23) \div 24
                buf == ImageToBin(img, last'.args[2], grayLevel).data
            IN  /\ status' = "ok"
                /\ Payloads(NewWrites) = buf
                /\ IF w = 0 THEN NewWrites = <<>>
                   ELSE /\ Len(NewWrites) = BandWrites * n
                        /\ \A b \in 0..(n - 1) :
                             LET head == NewWrites[BandWrites * (b + 1) - 2] IN
                             /\ head = IF dialect = "star" THEN <<ESC, 88, w % 256, w \div 256>>
                                       ELSE <<ESC, 42, 33, w % 256, w \div 256>>
                             /\ dialect = "star" => NewWrites[BandWrites * b + 1] = <<18>>
                             /\ Len(Payload(NewWrites, b)) = 3 * w
                             /\ Payload(NewWrites, b) = SubSeq(buf, 3 * w * b + 1, 3 * w * (b + 1))
                             /\ NewWrites[BandWrites * (b + 1)]
                                    = <<ESC, 74, IF dialect = "star" THEN 12 ELSE 24>>]_vars

\* The star encoder sends a black image of 2 by 25 pixels as two bands.
C23_Witness ==
    /\ dialect = "star" /\ status = "ok"
    /\ last = [op |-> "Image", args |-> <<[X |-> 2, Y |-> 25, pat |-> "black"], FALSE>>]
    /\ Len(sink) = 8
    /\ sink[1] = <<18>> /\ sink[2] = <<ESC, 88, 2, 0>>
    /\ sink[3] = <<255, 255, 255, 255, 255, 255>> /\ sink[4] = <<ESC, 74, 12>>
    /\ sink[7] = <<128, 0, 0, 128, 0, 0>> /\ sink[8] = <<ESC, 74, 12>>

(***************************************************************************)
(* C24.  In the postscript dialect Text ends for every string, page width  *)
(* and character scale, also when not one character of the current scale   *)
(* fits in a line: the wrapping loop moves on with each piece and makes    *)
(* finitely many pieces.                                                   *)
(***************************************************************************)
C24_TextTerminates ==
    [][(dialect = "postscript" /\ last'.op = "Text") => status' # "hang"]_vars

(***************************************************************************)
(* C25.  In the postscript dialect Text never slices out of range: in      *)
(* every state reached by Text, Tab, TabPositions, CharSize and LineFeed   *)
(* calls the room for the first chunk, counted from page width - pending   *)
(* tab offset - row width, is not negative, and Text does not fail.        *)
(***************************************************************************)
C25_TextNeverOutOfRange ==
    [][(dialect = "postscript" /\ last'.op = "Text" /\ last'.args[1] # <<>>)
         => /\ TruncDiv(width - (tab + row.width), sizeX * charWidth) >= 0
            /\ status' # "panic"]_vars

(***************************************************************************)
(* C26.  In the postscript dialect the vertical cursor is between 0 and    *)
(* the page height after every operation: never negative, also after       *)
(* Image, which takes 4 more after its page break test, and after a page   *)
(* break for a row or image nearly as high as the page.                    *)
(***************************************************************************)
C26_CursorOnPage ==
    (dialect = "postscript" /\ status = "ok")
        => (~y.nan /\ y.v >= 0 /\ y.v <= height)

(***************************************************************************)
(* C27.  In the postscript dialect a line flush clears all the state of    *)
(* the line: after LineFeed or Print the pending tab offset is zero and    *)
(* the row is empty, so a Tab on one line, with no text after it, does not *)
(* shift the first piece of the next line.                                 *)
(***************************************************************************)
C27_FlushClearsTab ==
    [][(dialect = "postscript" /\ last'.op \in {"LineFeed", "Print"} /\ status' = "ok")
         => (tab' = 0 /\ row'.pieces = <<>> /\ row'.width = 0)]_vars

(***************************************************************************)
(* One print job in the postscript dialect: Init first, then text, tabs,   *)
(* sizes, underlining, line flushes and images, then Print, after which    *)
(* the job is over.                                                        *)
(***************************************************************************)
JobOpen == status = "ok" /\ calls >= 1 /\ calls < MaxJobCalls - 1 /\ last.op # "Print"

JobInit == status = "ok" /\ calls = 0 /\ Do(InitOp(Cur), "Init", <<>>)

JobText == JobOpen /\ \E in \in TextInputs : Do(TextOp(Cur, in[1], in[2]), "Text", in)

JobTab == JobOpen /\ Do(TabOp(Cur), "Tab", <<>>)

JobLineFeed == JobOpen /\ Do(LineFeedOp(Cur), "LineFeed", <<>>)

JobCharSize == JobOpen /\ \E wh \in SizeInputs : Do(CharSizeOp(Cur, wh[1], wh[2]), "CharSize", wh)

JobUnderling == JobOpen /\ \E b \in ByteInputs : Do(UnderlingOp(Cur, b), "Underling", <<b>>)

\* The images that fit the page of height 30.
JobImage ==
    JobOpen /\ \E img \in {i \in PageImages : i.Y < TallImage}, invert \in BOOLEAN :
        Do(ImageOp(Cur, img, invert), "Image", <<img, invert>>)

JobPrint ==
    /\ status = "ok" /\ calls >= 1 /\ calls < MaxJobCalls /\ last.op # "Print"
    /\ Do(PrintOp(Cur), "Print", <<>>)

NextJob ==
    \/ JobInit \/ JobText \/ JobTab \/ JobLineFeed \/ JobCharSize \/ JobUnderling
    \/ JobImage \/ JobPrint
SpecJob == InitLayoutSpec /\ [][NextJob]_vars

\* The headers and page-shows among the instructions ws, in order.
PageMarks(ws) == SelectSeq(ws, LAMBDA e : e.op \in {"header", "showpage"})

\* Headers and page-shows alternate in ws, a header first.
MarksAlternate(ws) ==
    \A i \in 1..Len(PageMarks(ws)) :
        PageMarks(ws)[i].op = IF i % 2 = 1 THEN "header" ELSE "showpage"

\* Every show, stroke and image of ws comes after a header with no page-show
\* between the two.
ContentOnPages(ws) ==
    \A i \in 1..Len(ws) :
        ws[i].op \in {"show", "stroke", "image"}
            => \E j \in 1..(i - 1) :
                  /\ ws[j].op = "header"
                  /\ \A k \in (j + 1)..(i - 1) : ws[k].op # "showpage"

(***************************************************************************)
(* C28.  In a postscript job that starts with Init, ends with Print and    *)
(* has no other Init or Print, headers and page-shows alternate strictly,  *)
(* a header first and a page-show last, as many of the one as of the       *)
(* other, and every show, stroke and image is between a header and the     *)
(* page-show that closes its page.                                         *)
(***************************************************************************)
C28_PagesAlternate ==
    calls >= 1
        => /\ sink # <<>> /\ sink[1].op = "header"
           /\ MarksAlternate(sink)
           /\ ContentOnPages(sink)
           /\ (last.op = "Print" /\ status = "ok")
                => /\ sink[Len(sink)].op = "showpage"
                   /\ Len(Ops(sink, "header")) = Len(Ops(sink, "showpage"))

\* A job whose text ran over a page break: two pages at least, both closed.
C28_Witness ==
    /\ last.op = "Print" /\ status = "ok" /\ calls = 3
    /\ Len(Ops(sink, "header")) >= 2
    /\ Len(Ops(sink, "show")) >= 2
    /\ sink[Len(sink)].op = "showpage"

(***************************************************************************)
(* C29.  A rasterize call reads the process-wide gray level exactly once:  *)
(* whatever SetGrayLevel and ResetGrayLevel calls run between its steps,   *)
(* all its pixels are compared against one level, the initial 127 or a     *)
(* value stored by a call that began before the rasterize call returned;   *)
(* no image is made with a mix of two levels.                              *)
(***************************************************************************)
C29_OneThreshold ==
    raster.pc \in {"loop", "done"}
        => /\ raster.loads = 1
           /\ \E t \in {defaultGrayLevel} \cup stores :
                \A i \in 1..Len(raster.fg) :
                    raster.fg[i] = gray(At(raster.img, (i - 1) % raster.img.X,
                                           (i - 1) \div raster.img.X), t, raster.invert)

\* Both pixels are done at level 127 while the gray level is 100 by now: a
\* store came between the load and the return.
C29_Witness ==
    /\ raster.pc = "loop" /\ raster.kind = "ImageToBin"
    /\ raster.img = [X |-> 2, Y |-> 1, pat |-> "pixel", A |-> 255, L |-> 100]
    /\ ~raster.invert /\ raster.lvl = defaultGrayLevel
    /\ grayLevel = 100 /\ stores = {100}
    /\ raster.fg = <<TRUE, TRUE>>

(***************************************************************************)
(* C30.  In the postscript dialect content is written and placed in call   *)
(* order: text queued in the row before an Image call, with no LineFeed    *)
(* between, is written before the instructions of the image and placed     *)
(* above the image, never after or below it.                               *)
(***************************************************************************)
C30_TextBeforeImage ==
    [][(dialect = "postscript" /\ last'.op = "Image" /\ status' = "ok"
            /\ row.pieces # <<>> /\ NewImages # <<>>)
         => LET k      == CHOOSE i \in 1..Len(NewWrites) : NewWrites[i].op = "image"
                before == SubSeq(NewWrites, 1, k - 1)
            IN  /\ Len(Ops(before, "show")) >= Len(row.pieces)
                /\ \A i \in 1..Len(before) :
                     before[i].op = "moveto"
                        => before[i].y.v >= NewWrites[k].y.v + NewWrites[k].h.v]_vars

====
